---- MODULE Spec2Model ----
(***************************************************************************)
(* Invoice / payment / refund lifecycle of the walsatpay backend.          *)
(*                                                                         *)
(* A state is the committed content of the database tables `invoices`,    *)
(* `payments` and `payment_refunds` (status history rows are kept with the *)
(* entity that owns them), the current date, and a record describing the  *)
(* request that was served last.  Every action is one HTTP request or one  *)
(* model-level operation, run from its first statement to its commit (or   *)
(* to the early return / rollback that discards its changes).              *)
(*                                                                         *)
(* Money is counted in whole minor units.  Dates are day numbers.  A       *)
(* timestamp column holds 0 for NULL and otherwise the reading of the      *)
(* clock when it was written; the clock is read as the number of the       *)
(* history row the transition writes, so two transitions of one entity     *)
(* never read the same time.  User ids are positive, 0 is a NULL actor.    *)
(*                                                                         *)
(* Requests that run at the same time are followed step by step: `session` *)
(* holds, for each request in flight, the rows its SQLAlchemy session has  *)
(* loaded and changed and not yet committed.  The database gives each      *)
(* statement the rows committed before it (READ COMMITTED, the isolation   *)
(* of the production database) and makes a writer of a row wait for the    *)
(* transaction that has written it.                                        *)
(***************************************************************************)
EXTENDS Integers, Sequences, FiniteSets, TLC

\* ---------------------------------------------------------------- bounds
MaxInvoices == 1
MaxPayments == 2
MaxRefunds == 2
\* rows in all tables together (invoices, payments, refunds, both histories)
MaxRows == 8
MaxDay == 2
MaxAmount == 2
\* invoices in the run that numbers them, and the last year of its clock
MaxNumbered == 4
MaxYear == 2026

\* ------------------------------------------------------------ enumerations
InvoiceStatus == {"DRAFT", "SENT", "PAID", "OVERDUE", "CANCELLED"}

PaymentStatus ==
    {"PENDING", "PROCESSING", "COMPLETED", "FAILED", "CANCELLED",
     "REFUNDED", "PARTIALLY_REFUNDED"}

RefundStatus == {"PENDING", "PROCESSING", "COMPLETED", "FAILED", "CANCELLED"}

\* user 1 is the administrator, user 2 a member of staff
Users == {1, 2}
Admins == {1}
Staff == {2}
Customers == {1}

\* the customers table
CustomerTable == {1, 2}

NoteCreated == "Invoice created"
NoteEmail == "Invoice sent via email"
NoNotes == "none"
NoFailure == "none"

TaxRates == {0}
DiscountAmounts == {0}
LineItemInputs ==
    { <<>>,
      << [quantity |-> 1, unit_price |-> 1] >>,
      << [quantity |-> 1, unit_price |-> 1], [quantity |-> 1, unit_price |-> 1] >>,
      << [quantity |-> 1, unit_price |-> 0] >> }

VARIABLES invoices, payments, refunds, today, last, session

vars == <<invoices, payments, refunds, today, last, session>>

\* ------------------------------------------------------------- aggregation
RECURSIVE SumSeq(_)
SumSeq(s) == IF s = <<>> THEN 0 ELSE Head(s) + SumSeq(Tail(s))

Amounts(rows) == [k \in 1..Len(rows) |-> rows[k].amount]

\* (mutant) every payment that has not failed counts as paid
total_paid_in_unfailed(pays, id) ==
    LET paid(p) == p.invoice_id = id /\ p.status # "FAILED"
    IN  SumSeq(Amounts(SelectSeq(pays, paid)))

\* (mutant) a payment counts once for each completion its history records
total_paid_in_events(pays, id) ==
    LET paid(p) == p.invoice_id = id /\ p.status = "COMPLETED"
        rows == SelectSeq(pays, paid)
        events(p) == Cardinality({ k \in 1..Len(p.history) :
                                      p.history[k].new_status = "COMPLETED" })
    IN  SumSeq([k \in 1..Len(rows) |-> rows[k].amount * events(rows[k])])

\* Invoice.total_paid, evaluated against the payments table pays
total_paid_in(pays, id) ==
    LET paid(p) == p.invoice_id = id /\ p.status = "COMPLETED"
    IN  SumSeq(Amounts(SelectSeq(pays, paid)))

total_paid(id) == total_paid_in(payments, id)

outstanding_amount_in(invs, pays, id) ==
    invs[id].total_amount - total_paid_in(pays, id)

outstanding_amount(id) == outstanding_amount_in(invoices, payments, id)

\* Payment.total_refunded / refundable_amount
total_refunded(pid) ==
    LET done(r) == r.payment_id = pid /\ r.status = "COMPLETED"
    IN  SumSeq(Amounts(SelectSeq(refunds, done)))

refundable_amount(pid) == payments[pid].amount - total_refunded(pid)

\* (mutant) only a failed payment is refused
is_refundable_unfailed(pid) == payments[pid].status # "FAILED"

is_refundable(pid) == payments[pid].status = "COMPLETED"

\* (mutant) an invoice due today counts as overdue
is_overdue_today(id) ==
    invoices[id].status \in {"SENT"} /\ invoices[id].due_date <= today

is_overdue(id) == invoices[id].status \in {"SENT"} /\ invoices[id].due_date < today

\* --------------------------------------------------------------- totals
calculate_total(item) ==
    [quantity |-> item.quantity, unit_price |-> item.unit_price,
     total_amount |-> item.quantity * item.unit_price]

LineTotals(items) == [k \in 1..Len(items) |-> items[k].total_amount]

\* (mutant) the discount is added to the total
calculate_totals_surcharge(inv) ==
    LET sub == SumSeq(LineTotals(inv.line_items))
        tax == IF inv.tax_rate # 0 THEN (sub * inv.tax_rate + 50) \div 100 ELSE 0
    IN  [inv EXCEPT !.subtotal = sub, !.tax_amount = tax,
                    !.total_amount = sub + tax + inv.discount_amount]

\* Invoice.calculate_totals.  tax_rate is a percentage; the tax is kept in a
\* Numeric(10, 2) column, which holds it to the nearest minor unit.
calculate_totals(inv) ==
    LET sub == SumSeq(LineTotals(inv.line_items))
        tax == IF inv.tax_rate # 0 THEN (sub * inv.tax_rate + 50) \div 100 ELSE 0
    IN  [inv EXCEPT !.subtotal = sub, !.tax_amount = tax,
                    !.total_amount = sub + tax - inv.discount_amount]

\* datetime.utcnow() as read by a transition that is about to write the next
\* row of the history rows
utcnow(rows) == Len(rows) + 1

\* (mutant) the history row reads the status after it was assigned
Invoice_update_status_late(inv, new_status, user_id, notes) ==
    IF inv.status # new_status
    THEN [inv EXCEPT
            !.status = new_status,
            !.sent_at = IF new_status = "SENT" THEN utcnow(inv.status_history) ELSE @,
            !.paid_at = IF new_status = "PAID" THEN utcnow(inv.status_history) ELSE @,
            !.status_history = Append(@,
                [old_status |-> new_status, new_status |-> new_status,
                 changed_by |-> user_id, notes |-> notes])]
    ELSE inv

\* (mutant) the guard on an unchanged status is missing
Invoice_update_status_unguarded(inv, new_status, user_id, notes) ==
    [inv EXCEPT
        !.status = new_status,
        !.sent_at = IF new_status = "SENT" THEN utcnow(inv.status_history) ELSE @,
        !.paid_at = IF new_status = "PAID" THEN utcnow(inv.status_history) ELSE @,
        !.status_history = Append(@,
            [old_status |-> inv.status, new_status |-> new_status,
             changed_by |-> user_id, notes |-> notes])]

\* ------------------------------------------------------ invoice numbers
\* An invoice number INV-{year}-{tail} is kept as its year and the digits of
\* its tail, most significant first.  Dates are day numbers counted from the
\* first day of 2025.
year_of(day) == 2025 + (day - 1) \div 365

\* str(n) for n >= 0
RECURSIVE Digits(_)
Digits(n) == IF n < 10 THEN <<n>> ELSE Append(Digits(n \div 10), n % 10)

\* f'{n:04d}': at least four digits, zeros in front
Format04d(n) ==
    LET d == Digits(n)
    IN  IF Len(d) >= 4 THEN d ELSE [k \in 1..(4 - Len(d)) |-> 0] \o d

\* int(tail) of a string of digits
RECURSIVE ParseInt(_)
ParseInt(d) ==
    IF d = <<>> THEN 0 ELSE 10 * ParseInt(SubSeq(d, 1, Len(d) - 1)) + d[Len(d)]

\* a < b as strings: ORDER BY invoice_number compares character by character
RECURSIVE StrLess(_, _)
StrLess(a, b) ==
    IF a = <<>> THEN b # <<>>
    ELSE IF b = <<>> THEN FALSE
    ELSE IF Head(a) # Head(b) THEN Head(a) < Head(b)
    ELSE StrLess(Tail(a), Tail(b))

\* Invoice.generate_invoice_number: the row LIKE 'INV-{year}-%' that comes
\* first ORDER BY invoice_number DESC, its tail parsed and one added
generate_invoice_number(invs, year) ==
    LET same == {k \in 1..Len(invs) : invs[k].invoice_number.year = year}
    IN  IF same = {}
        THEN [year |-> year, tail |-> Format04d(1)]
        ELSE LET last_invoice == CHOOSE k \in same : \A j \in same :
                        ~StrLess(invs[k].invoice_number.tail, invs[j].invoice_number.tail)
                 last_seq == ParseInt(invs[last_invoice].invoice_number.tail)
             IN  [year |-> year, tail |-> Format04d(last_seq + 1)]

\* (mutant) the time of payment is not noted
Invoice_update_status_unstamped(inv, new_status, user_id, notes) ==
    IF inv.status # new_status
    THEN [inv EXCEPT
            !.status = new_status,
            !.sent_at = IF new_status = "SENT" THEN utcnow(inv.status_history) ELSE @,
            !.status_history = Append(@,
                [old_status |-> inv.status, new_status |-> new_status,
                 changed_by |-> user_id, notes |-> notes])]
    ELSE inv

\* (mutant) the newest history record is rewritten to tell of this change
Invoice_update_status_rewriting(inv, new_status, user_id, notes) ==
    IF inv.status # new_status
    THEN [inv EXCEPT
            !.status = new_status,
            !.sent_at = IF new_status = "SENT" THEN utcnow(inv.status_history) ELSE @,
            !.paid_at = IF new_status = "PAID" THEN utcnow(inv.status_history) ELSE @,
            !.status_history = [@ EXCEPT ![Len(@)] =
                [old_status |-> inv.status, new_status |-> new_status,
                 changed_by |-> user_id, notes |-> notes]]]
    ELSE inv

\* --------------------------------------------------- Invoice.update_status
Invoice_update_status(inv, new_status, user_id, notes) ==
    IF inv.status # new_status
    THEN [inv EXCEPT
            !.status = new_status,
            !.sent_at = IF new_status = "SENT" THEN utcnow(inv.status_history) ELSE @,
            !.paid_at = IF new_status = "PAID" THEN utcnow(inv.status_history) ELSE @,
            !.status_history = Append(@,
                [old_status |-> inv.status, new_status |-> new_status,
                 changed_by |-> user_id, notes |-> notes])]
    ELSE inv

\* (mutant) a paid invoice may still be cancelled
valid_transitions_paid_cancels(s) ==
    CASE s = "DRAFT" -> {"SENT", "CANCELLED"}
      [] s = "SENT" -> {"PAID", "OVERDUE", "CANCELLED"}
      [] s = "OVERDUE" -> {"PAID", "CANCELLED"}
      [] s = "PAID" -> {"CANCELLED"}
      [] s = "CANCELLED" -> {"DRAFT"}

\* the transition table of the status route
valid_transitions(s) ==
    CASE s = "DRAFT" -> {"SENT", "CANCELLED"}
      [] s = "SENT" -> {"PAID", "OVERDUE", "CANCELLED"}
      [] s = "OVERDUE" -> {"PAID", "CANCELLED"}
      [] s = "PAID" -> {}
      [] s = "CANCELLED" -> {"DRAFT"}

\* --------------------------------------------------------- request record
NoCalls == <<>>

Call(id, old, new) == [invoice_id |-> id, old_status |-> old, new_status |-> new]

\* what the last request was, what it answered, and the invocations of
\* Invoice.update_status it made (in order); a request that was refused
\* leaves only the entity it named, and a refund request also its amount
Served(op, result, id, status, amount, actor, calls) ==
    [op |-> op, result |-> result, id |-> id, status |-> status,
     amount |-> amount, actor |-> actor, calls |-> calls]

\* the size of the database: the rows of all its tables
RowsIn(invs, pays, refs) ==
    Len(invs) + Len(pays) + Len(refs)
    + SumSeq([k \in 1..Len(invs) |-> Len(invs[k].status_history)])
    + SumSeq([k \in 1..Len(pays) |-> Len(pays[k].history)])

\* a request that would make the database outgrow MaxRows is not served
Bounded == RowsIn(invoices', payments', refunds') <= MaxRows

\* the requests that can be in flight together
Requests == {1, 2}

\* the session of a request that is not running
NoSession == [pc |-> "idle"]

\* no request was served in the last step
Idle == Served("none", "ok", 0, "none", 0, 0, NoCalls)

Init ==
    /\ invoices = <<>>
    /\ payments = <<>>
    /\ refunds = <<>>
    /\ today = 1
    /\ last = Idle
    /\ session = [s \in Requests |-> NoSession]

\* ------------------------------------------------- POST /invoices/ (create)
\* the day the server process was started: the default of issue_date is
\* the date method of the datetime taken when the module was imported
ProcessStarted == 1

\* Invoice(...) as create_invoice fills it; issue = 0 stands for a body
\* without issue_date
NewInvoice(user, customer, items, tax_rate, discount, issue, due, number) ==
    calculate_totals(
        [invoice_number |-> number,
         customer_id |-> customer, created_by |-> user,
         issue_date |-> IF issue = 0 THEN ProcessStarted ELSE issue,
         due_date |-> due,
         status |-> "DRAFT", sent_at |-> 0, paid_at |-> 0,
         tax_rate |-> tax_rate, discount_amount |-> discount,
         line_items |-> [k \in 1..Len(items) |-> calculate_total(items[k])],
         subtotal |-> 0, tax_amount |-> 0, total_amount |-> 0,
         status_history |->
            << [old_status |-> "DRAFT", new_status |-> "DRAFT",
                changed_by |-> user, notes |-> NoteCreated] >>])

ItemsValid(items) ==
    \A k \in 1..Len(items) : items[k].quantity # 0 /\ items[k].unit_price # 0

\* (mutant) the request that finds a line item invalid keeps what it had
\* flushed: the invoice, without line items, totals or history
create_invoice_flushed(user, customer, items, tax_rate, discount, issue, due) ==
    LET number == generate_invoice_number(invoices, year_of(today))
    IN  /\ IF customer = 0 \/ items = <<>>
           THEN /\ last' = Served("create_invoice", "ValidationError", 0, "none", 0, 0, NoCalls)
                /\ UNCHANGED invoices
           ELSE IF customer \notin CustomerTable
           THEN /\ last' = Served("create_invoice", "CustomerNotFound", 0, "none", 0, 0, NoCalls)
                /\ UNCHANGED invoices
           ELSE IF issue < 0
           THEN /\ last' = Served("create_invoice", "ValidationError", 0, "none", 0, 0, NoCalls)
                /\ UNCHANGED invoices
           ELSE IF \E k \in 1..Len(invoices) : invoices[k].invoice_number = number
           THEN /\ last' = Served("create_invoice", "IntegrityError", 0, "none", 0, 0, NoCalls)
                /\ UNCHANGED invoices
           ELSE IF ~ItemsValid(items)
           THEN /\ last' = Served("create_invoice", "ValidationError", 0, "none", 0, 0, NoCalls)
                /\ invoices' = Append(invoices,
                        [NewInvoice(user, customer, <<>>, tax_rate, discount, issue, due, number)
                            EXCEPT !.status_history = <<>>])
           ELSE /\ invoices' = Append(invoices,
                        NewInvoice(user, customer, items, tax_rate, discount, issue, due, number))
                /\ last' = Served("create_invoice", "ok", Len(invoices) + 1, "none", 0, user, NoCalls)
        /\ UNCHANGED <<payments, refunds, today, session>>
        /\ Bounded

\* The body is looked at first (customer_id and line_items are required, the
\* customer must exist); the invoice is then numbered, its dates are parsed
\* (issue < 0 stands for a text that is not a date) and it is flushed before
\* its line items are looked at: the unique index on invoice_number refuses
\* a number that is taken, and the request then answers with a server error.
\* A request that answers before the commit is rolled back as a whole.
create_invoice(user, customer, items, tax_rate, discount, issue, due) ==
    LET number == generate_invoice_number(invoices, year_of(today))
    IN  /\ IF customer = 0 \/ items = <<>>
           THEN /\ last' = Served("create_invoice", "ValidationError", 0, "none", 0, 0, NoCalls)
                /\ UNCHANGED invoices
           ELSE IF customer \notin CustomerTable
           THEN /\ last' = Served("create_invoice", "CustomerNotFound", 0, "none", 0, 0, NoCalls)
                /\ UNCHANGED invoices
           ELSE IF issue < 0
           THEN /\ last' = Served("create_invoice", "ValidationError", 0, "none", 0, 0, NoCalls)
                /\ UNCHANGED invoices
           ELSE IF \E k \in 1..Len(invoices) : invoices[k].invoice_number = number
           THEN /\ last' = Served("create_invoice", "IntegrityError", 0, "none", 0, 0, NoCalls)
                /\ UNCHANGED invoices
           ELSE IF ~ItemsValid(items)
           THEN /\ last' = Served("create_invoice", "ValidationError", 0, "none", 0, 0, NoCalls)
                /\ UNCHANGED invoices
           ELSE /\ invoices' = Append(invoices,
                        NewInvoice(user, customer, items, tax_rate, discount, issue, due, number))
                /\ last' = Served("create_invoice", "ok", Len(invoices) + 1, "none", 0, user, NoCalls)
        /\ UNCHANGED <<payments, refunds, today, session>>
        /\ Bounded

\* (mutant) the totals are recomputed only when the line items are replaced
update_invoice_stale(user, id, data) ==
    /\ id \in 1..Len(invoices)
    /\ IF invoices[id].status \in {"PAID", "CANCELLED"}
       THEN /\ last' = Served("update_invoice", "NotEditable", id, "none", 0, 0, NoCalls)
            /\ UNCHANGED invoices
       ELSE IF data.has_customer_id /\ data.customer_id \notin CustomerTable
       THEN /\ last' = Served("update_invoice", "CustomerNotFound", id, "none", 0, 0, NoCalls)
            /\ UNCHANGED invoices
       ELSE IF data.has_line_items /\ ~ItemsValid(data.line_items)
       THEN /\ last' = Served("update_invoice", "ValidationError", id, "none", 0, 0, NoCalls)
            /\ UNCHANGED invoices
       ELSE /\ invoices' = [invoices EXCEPT ![id] =
                    LET edited == [@ EXCEPT
                       !.customer_id =
                            IF data.has_customer_id THEN data.customer_id ELSE @,
                       !.issue_date = IF data.has_issue_date THEN data.issue_date ELSE @,
                       !.tax_rate = IF data.has_tax_rate THEN data.tax_rate ELSE @,
                       !.discount_amount =
                            IF data.has_discount_amount THEN data.discount_amount ELSE @,
                       !.line_items = IF data.has_line_items
                            THEN [k \in 1..Len(data.line_items) |->
                                        calculate_total(data.line_items[k])]
                            ELSE @]
                    IN  IF data.has_line_items THEN calculate_totals(edited) ELSE edited]
            /\ last' = Served("update_invoice", "ok", id, "none", 0, user, NoCalls)
    /\ UNCHANGED <<payments, refunds, today, session>>

\* (mutant) the status of the invoice is not looked at before the edit
update_invoice_unguarded(user, id, data) ==
    /\ id \in 1..Len(invoices)
    /\ IF data.has_customer_id /\ data.customer_id \notin CustomerTable
       THEN /\ last' = Served("update_invoice", "CustomerNotFound", id, "none", 0, 0, NoCalls)
            /\ UNCHANGED invoices
       ELSE IF data.has_line_items /\ ~ItemsValid(data.line_items)
       THEN /\ last' = Served("update_invoice", "ValidationError", id, "none", 0, 0, NoCalls)
            /\ UNCHANGED invoices
       ELSE /\ invoices' = [invoices EXCEPT ![id] = calculate_totals(
                    [@ EXCEPT
                       !.customer_id =
                            IF data.has_customer_id THEN data.customer_id ELSE @,
                       !.issue_date = IF data.has_issue_date THEN data.issue_date ELSE @,
                       !.tax_rate = IF data.has_tax_rate THEN data.tax_rate ELSE @,
                       !.discount_amount =
                            IF data.has_discount_amount THEN data.discount_amount ELSE @,
                       !.line_items = IF data.has_line_items
                            THEN [k \in 1..Len(data.line_items) |->
                                        calculate_total(data.line_items[k])]
                            ELSE @])]
            /\ last' = Served("update_invoice", "ok", id, "none", 0, user, NoCalls)
    /\ UNCHANGED <<payments, refunds, today, session>>

\* (mutant) only a CANCELLED invoice is closed to edits
update_invoice_paid_editable(user, id, data) ==
    /\ id \in 1..Len(invoices)
    /\ IF invoices[id].status = "CANCELLED"
       THEN /\ last' = Served("update_invoice", "NotEditable", id, "none", 0, 0, NoCalls)
            /\ UNCHANGED invoices
       ELSE IF data.has_customer_id /\ data.customer_id \notin CustomerTable
       THEN /\ last' = Served("update_invoice", "CustomerNotFound", id, "none", 0, 0, NoCalls)
            /\ UNCHANGED invoices
       ELSE IF data.has_line_items /\ ~ItemsValid(data.line_items)
       THEN /\ last' = Served("update_invoice", "ValidationError", id, "none", 0, 0, NoCalls)
            /\ UNCHANGED invoices
       ELSE /\ invoices' = [invoices EXCEPT ![id] = calculate_totals(
                    [@ EXCEPT
                       !.customer_id =
                            IF data.has_customer_id THEN data.customer_id ELSE @,
                       !.issue_date = IF data.has_issue_date THEN data.issue_date ELSE @,
                       !.tax_rate = IF data.has_tax_rate THEN data.tax_rate ELSE @,
                       !.discount_amount =
                            IF data.has_discount_amount THEN data.discount_amount ELSE @,
                       !.line_items = IF data.has_line_items
                            THEN [k \in 1..Len(data.line_items) |->
                                        calculate_total(data.line_items[k])]
                            ELSE @])]
            /\ last' = Served("update_invoice", "ok", id, "none", 0, user, NoCalls)
    /\ UNCHANGED <<payments, refunds, today, session>>

\* ---------------------------------------------- PUT /invoices/<id> (edit)
\* data says which keys the request body holds and their values
update_invoice(user, id, data) ==
    /\ id \in 1..Len(invoices)
    /\ IF invoices[id].status \in {"PAID", "CANCELLED"}
       THEN /\ last' = Served("update_invoice", "NotEditable", id, "none", 0, 0, NoCalls)
            /\ UNCHANGED invoices
       ELSE IF data.has_customer_id /\ data.customer_id \notin CustomerTable
       THEN /\ last' = Served("update_invoice", "CustomerNotFound", id, "none", 0, 0, NoCalls)
            /\ UNCHANGED invoices
       ELSE IF data.has_line_items /\ ~ItemsValid(data.line_items)
       THEN /\ last' = Served("update_invoice", "ValidationError", id, "none", 0, 0, NoCalls)
            /\ UNCHANGED invoices
       ELSE /\ invoices' = [invoices EXCEPT ![id] = calculate_totals(
                    [@ EXCEPT
                       !.customer_id =
                            IF data.has_customer_id THEN data.customer_id ELSE @,
                       !.issue_date = IF data.has_issue_date THEN data.issue_date ELSE @,
                       !.tax_rate = IF data.has_tax_rate THEN data.tax_rate ELSE @,
                       !.discount_amount =
                            IF data.has_discount_amount THEN data.discount_amount ELSE @,
                       !.line_items = IF data.has_line_items
                            THEN [k \in 1..Len(data.line_items) |->
                                        calculate_total(data.line_items[k])]
                            ELSE @])]
            /\ last' = Served("update_invoice", "ok", id, "none", 0, user, NoCalls)
    /\ UNCHANGED <<payments, refunds, today, session>>

\* --------------------------------------- PUT /invoices/<id>/status (manual)
update_invoice_status(user, id, new_status) ==
    /\ id \in 1..Len(invoices)
    /\ IF new_status \notin valid_transitions(invoices[id].status)
       THEN /\ last' = Served("update_invoice_status", "InvalidTransition", id,
                              "none", 0, 0, NoCalls)
            /\ UNCHANGED invoices
       ELSE /\ invoices' = [invoices EXCEPT
                    ![id] = Invoice_update_status(@, new_status, user, NoNotes)]
            /\ last' = Served("update_invoice_status", "ok", id, new_status, 0, user,
                              << Call(id, invoices[id].status, new_status) >>)
    /\ UNCHANGED <<payments, refunds, today, session>>
    /\ Bounded

\* (mutant) the answer of the mail service is not looked at
send_invoice_email_unsent(user, id, success) ==
    /\ id \in 1..Len(invoices)
    /\ IF invoices[id].status = "DRAFT"
       THEN /\ invoices' = [invoices EXCEPT
                    ![id] = Invoice_update_status(@, "SENT", user, NoteEmail)]
            /\ last' = Served("send_invoice_email",
                              IF success THEN "ok" ELSE "EmailFailed",
                              id, "none", 0, user,
                              << Call(id, invoices[id].status, "SENT") >>)
       ELSE /\ last' = Served("send_invoice_email",
                              IF success THEN "ok" ELSE "EmailFailed",
                              id, "none", 0, 0, NoCalls)
            /\ UNCHANGED invoices
    /\ UNCHANGED <<payments, refunds, today, session>>
    /\ Bounded

\* ------------------------------------------ POST /invoices/<id>/email (send)
send_invoice_email(user, id, success) ==
    /\ id \in 1..Len(invoices)
    /\ IF success /\ invoices[id].status = "DRAFT"
       THEN /\ invoices' = [invoices EXCEPT
                    ![id] = Invoice_update_status(@, "SENT", user, NoteEmail)]
            /\ last' = Served("send_invoice_email", "ok", id, "none", 0, user,
                              << Call(id, invoices[id].status, "SENT") >>)
       ELSE /\ last' = Served("send_invoice_email",
                              IF success THEN "ok" ELSE "EmailFailed",
                              id, "none", 0, 0, NoCalls)
            /\ UNCHANGED invoices
    /\ UNCHANGED <<payments, refunds, today, session>>
    /\ Bounded

\* ------------------------------------- POST /invoices/bulk-email (send many)
NoteBulkEmail == "Invoice sent via bulk email"

\* The loop over invoice_ids, after its first n rounds: entries[k] is the id
\* of round k and what the mail service answered for it (an exception of
\* the round is caught and counts as a failure).  An id without invoice is
\* skipped; each round sees what the rounds before it did.
RECURSIVE send_bulk_loop(_, _, _, _)
send_bulk_loop(invs, entries, user, n) ==
    IF n = 0 THEN [invoices |-> invs, calls |-> NoCalls]
    ELSE LET before == send_bulk_loop(invs, entries, user, n - 1)
             e == entries[n]
         IN  IF /\ e.id \in 1..Len(invs)
                /\ e.success
                /\ before.invoices[e.id].status = "DRAFT"
             THEN [invoices |-> [before.invoices EXCEPT ![e.id] =
                        Invoice_update_status(@, "SENT", user, NoteBulkEmail)],
                   calls |-> Append(before.calls, Call(e.id, "DRAFT", "SENT"))]
             ELSE before

\* one commit after the loop; a body without invoice_ids is refused
send_bulk_invoice_emails(user, entries) ==
    /\ IF entries = <<>>
       THEN /\ last' = Served("send_bulk_invoice_emails", "ValidationError", 0,
                              "none", 0, 0, NoCalls) @@ [entries |-> entries]
            /\ UNCHANGED invoices
       ELSE LET done == send_bulk_loop(invoices, entries, user, Len(entries))
            IN  /\ invoices' = done.invoices
                /\ last' = Served("send_bulk_invoice_emails", "ok", 0, "none", 0,
                                  user, done.calls) @@ [entries |-> entries]
    /\ UNCHANGED <<payments, refunds, today, session>>
    /\ Bounded

\* --------------------------------------------- Invoice.check_overdue_status
check_overdue_status(id) ==
    /\ id \in 1..Len(invoices)
    /\ IF is_overdue(id) /\ invoices[id].status = "SENT"
       THEN /\ invoices' = [invoices EXCEPT
                    ![id] = Invoice_update_status(@, "OVERDUE", 0, NoNotes)]
            /\ last' = Served("check_overdue_status", "ok", id, "none", 0, 0,
                              << Call(id, invoices[id].status, "OVERDUE") >>)
       ELSE /\ last' = Served("check_overdue_status", "ok", id, "none", 0, 0, NoCalls)
            /\ UNCHANGED invoices
    /\ UNCHANGED <<payments, refunds, today, session>>
    /\ Bounded

\* ------------------------------------------------ POST /payments/initiate
\* a numeric column that is NULL; a value v is held as << v >>
NoAmount == <<>>

\* Payment(...) as the routes build it and the INSERT stores it: the column
\* default gives processing_fee, nothing gives net_amount
NewPayment(id, amount) ==
    [invoice_id |-> id, amount |-> amount, status |-> "PENDING",
     processing_fee |-> 0, net_amount |-> NoAmount,
     provider_payment_intent_id |-> 0,
     failure_reason |-> NoFailure, failure_code |-> NoFailure,
     processed_at |-> 0, completed_at |-> 0, failed_at |-> 0,
     history |-> <<>>]

\* (mutant) the amount is not held against the outstanding amount
initiate_payment_unbalanced(id, amount) ==
    /\ id \in 1..Len(invoices)
    /\ Len(payments) < MaxPayments
    /\ IF invoices[id].status \notin {"SENT", "OVERDUE"}
       THEN /\ last' = Served("initiate_payment", "NotPayable", id, "none", 0, 0, NoCalls)
            /\ UNCHANGED payments
       ELSE IF amount <= 0
       THEN /\ last' = Served("initiate_payment", "ValidationError", id, "none", 0, 0, NoCalls)
            /\ UNCHANGED payments
       ELSE /\ payments' = Append(payments, NewPayment(id, amount))
            /\ last' = Served("initiate_payment", "ok", Len(payments) + 1, "none", amount, 0, NoCalls)
    /\ UNCHANGED <<invoices, refunds, today, session>>
    /\ Bounded

initiate_payment(id, amount) ==
    /\ id \in 1..Len(invoices)
    /\ Len(payments) < MaxPayments
    /\ IF invoices[id].status \notin {"SENT", "OVERDUE"}
       THEN /\ last' = Served("initiate_payment", "NotPayable", id, "none", 0, 0, NoCalls)
            /\ UNCHANGED payments
       ELSE IF amount <= 0 \/ amount > outstanding_amount(id)
       THEN /\ last' = Served("initiate_payment", "ValidationError", id, "none", 0, 0, NoCalls)
            /\ UNCHANGED payments
       ELSE /\ payments' = Append(payments, NewPayment(id, amount))
            /\ last' = Served("initiate_payment", "ok", Len(payments) + 1, "none", amount, 0, NoCalls)
    /\ UNCHANGED <<invoices, refunds, today, session>>
    /\ Bounded

\* ------------------------------------ POST /pay/<invoice_uuid>/initiate
\* The public page makes the same checks and commits the payment; building
\* the answer then reads payment.uuid, which a Payment does not have, so the
\* request that created a payment answers with a server error.
public_initiate_payment(id, amount) ==
    /\ id \in 1..Len(invoices)
    /\ Len(payments) < MaxPayments
    /\ IF invoices[id].status \notin {"SENT", "OVERDUE"}
       THEN /\ last' = Served("public_initiate_payment", "NotPayable", id, "none", 0, 0, NoCalls)
            /\ UNCHANGED payments
       ELSE IF amount <= 0 \/ amount > outstanding_amount(id)
       THEN /\ last' = Served("public_initiate_payment", "ValidationError", id, "none", 0, 0, NoCalls)
            /\ UNCHANGED payments
       ELSE /\ payments' = Append(payments, NewPayment(id, amount))
            /\ last' = Served("public_initiate_payment", "ServerError", Len(payments) + 1,
                              "none", amount, 0, NoCalls)
    /\ UNCHANGED <<invoices, refunds, today, session>>
    /\ Bounded

\* -------------------------------- POST /pay/payment/<uuid>/confirm
\* The lookup filters the payments by uuid, an attribute a Payment does not
\* have: the query raises, the handler rolls back and answers with a server
\* error, whatever payment was meant.
confirm_payment(pid) ==
    /\ pid \in 1..Len(payments)
    /\ last' = Served("confirm_payment", "ServerError", 0, "none", 0, 0, NoCalls)
    /\ UNCHANGED <<invoices, payments, refunds, today, session>>

\* (mutant) as for an invoice, a call with the status the payment has adds
\* no record
Payment_update_status_guarded(pid, new_status, failure_reason, failure_code) ==
    LET p == payments[pid]
        stamped == [p EXCEPT
            !.status = new_status,
            !.processed_at = IF new_status = "PROCESSING" THEN utcnow(p.history) ELSE @,
            !.completed_at = IF new_status = "COMPLETED" THEN utcnow(p.history) ELSE @,
            !.failed_at = IF new_status = "FAILED" THEN utcnow(p.history) ELSE @,
            !.failure_reason = IF new_status = "FAILED" THEN failure_reason ELSE @,
            !.failure_code = IF new_status = "FAILED" THEN failure_code ELSE @]
        flushed == [payments EXCEPT ![pid] = stamped]
        cascade == new_status = "COMPLETED"
                   /\ outstanding_amount_in(invoices, flushed, p.invoice_id) <= 0
    IN  [payments |-> IF p.status = new_status THEN flushed
                      ELSE [flushed EXCEPT ![pid].history = Append(@,
                          [old_status |-> p.status, new_status |-> new_status,
                           failure_reason |-> failure_reason,
                           failure_code |-> failure_code])],
         invoices |-> IF cascade
                      THEN [invoices EXCEPT ![p.invoice_id] =
                                Invoice_update_status(@, "PAID", 0, NoNotes)]
                      ELSE invoices,
         calls |-> IF cascade
                   THEN << Call(p.invoice_id, invoices[p.invoice_id].status, "PAID") >>
                   ELSE NoCalls]

\* (mutant) the failure details are written whatever the new status is
Payment_update_status_clearing(pid, new_status, failure_reason, failure_code) ==
    LET p == payments[pid]
        stamped == [p EXCEPT
            !.status = new_status,
            !.processed_at = IF new_status = "PROCESSING" THEN utcnow(p.history) ELSE @,
            !.completed_at = IF new_status = "COMPLETED" THEN utcnow(p.history) ELSE @,
            !.failed_at = IF new_status = "FAILED" THEN utcnow(p.history) ELSE @,
            !.failure_reason = failure_reason,
            !.failure_code = failure_code]
        flushed == [payments EXCEPT ![pid] = stamped]
        cascade == new_status = "COMPLETED"
                   /\ outstanding_amount_in(invoices, flushed, p.invoice_id) <= 0
    IN  [payments |-> [flushed EXCEPT ![pid].history = Append(@,
                          [old_status |-> p.status, new_status |-> new_status,
                           failure_reason |-> failure_reason,
                           failure_code |-> failure_code])],
         invoices |-> IF cascade
                      THEN [invoices EXCEPT ![p.invoice_id] =
                                Invoice_update_status(@, "PAID", 0, NoNotes)]
                      ELSE invoices,
         calls |-> IF cascade
                   THEN << Call(p.invoice_id, invoices[p.invoice_id].status, "PAID") >>
                   ELSE NoCalls]

\* (mutant) the balance is read before this payment's new status is flushed
Payment_update_status_stale(pid, new_status, failure_reason, failure_code) ==
    LET p == payments[pid]
        stamped == [p EXCEPT
            !.status = new_status,
            !.processed_at = IF new_status = "PROCESSING" THEN utcnow(p.history) ELSE @,
            !.completed_at = IF new_status = "COMPLETED" THEN utcnow(p.history) ELSE @,
            !.failed_at = IF new_status = "FAILED" THEN utcnow(p.history) ELSE @,
            !.failure_reason = IF new_status = "FAILED" THEN failure_reason ELSE @,
            !.failure_code = IF new_status = "FAILED" THEN failure_code ELSE @]
        flushed == [payments EXCEPT ![pid] = stamped]
        cascade == new_status = "COMPLETED"
                   /\ outstanding_amount_in(invoices, payments, p.invoice_id) <= 0
    IN  [payments |-> [flushed EXCEPT ![pid].history = Append(@,
                          [old_status |-> p.status, new_status |-> new_status,
                           failure_reason |-> failure_reason,
                           failure_code |-> failure_code])],
         invoices |-> IF cascade
                      THEN [invoices EXCEPT ![p.invoice_id] =
                                Invoice_update_status(@, "PAID", 0, NoNotes)]
                      ELSE invoices,
         calls |-> IF cascade
                   THEN << Call(p.invoice_id, invoices[p.invoice_id].status, "PAID") >>
                   ELSE NoCalls]

\* (mutant) a payment that leaves COMPLETED takes the invoice back to SENT
\* when it is no longer covered
Payment_update_status_reverting(pid, new_status, failure_reason, failure_code) ==
    LET p == payments[pid]
        stamped == [p EXCEPT
            !.status = new_status,
            !.processed_at = IF new_status = "PROCESSING" THEN utcnow(p.history) ELSE @,
            !.completed_at = IF new_status = "COMPLETED" THEN utcnow(p.history) ELSE @,
            !.failed_at = IF new_status = "FAILED" THEN utcnow(p.history) ELSE @,
            !.failure_reason = IF new_status = "FAILED" THEN failure_reason ELSE @,
            !.failure_code = IF new_status = "FAILED" THEN failure_code ELSE @]
        flushed == [payments EXCEPT ![pid] = stamped]
        cascade == new_status = "COMPLETED"
                   /\ outstanding_amount_in(invoices, flushed, p.invoice_id) <= 0
        revert == new_status # "COMPLETED"
                  /\ p.status = "COMPLETED"
                  /\ outstanding_amount_in(invoices, flushed, p.invoice_id) > 0
    IN  [payments |-> [flushed EXCEPT ![pid].history = Append(@,
                          [old_status |-> p.status, new_status |-> new_status,
                           failure_reason |-> failure_reason,
                           failure_code |-> failure_code])],
         invoices |-> IF cascade
                      THEN [invoices EXCEPT ![p.invoice_id] =
                                Invoice_update_status(@, "PAID", 0, NoNotes)]
                      ELSE IF revert
                      THEN [invoices EXCEPT ![p.invoice_id] =
                                Invoice_update_status(@, "SENT", 0, NoNotes)]
                      ELSE invoices,
         calls |-> IF cascade
                   THEN << Call(p.invoice_id, invoices[p.invoice_id].status, "PAID") >>
                   ELSE IF revert
                   THEN << Call(p.invoice_id, invoices[p.invoice_id].status, "SENT") >>
                   ELSE NoCalls]

\* --------------------------------------------------- Payment.update_status
\* The result: the payments table, the invoices table and the calls made to
\* Invoice.update_status.  The query behind invoice.outstanding_amount
\* flushes the session first, so it sees this payment's new status.
Payment_update_status(pid, new_status, failure_reason, failure_code) ==
    LET p == payments[pid]
        stamped == [p EXCEPT
            !.status = new_status,
            !.processed_at = IF new_status = "PROCESSING" THEN utcnow(p.history) ELSE @,
            !.completed_at = IF new_status = "COMPLETED" THEN utcnow(p.history) ELSE @,
            !.failed_at = IF new_status = "FAILED" THEN utcnow(p.history) ELSE @,
            !.failure_reason = IF new_status = "FAILED" THEN failure_reason ELSE @,
            !.failure_code = IF new_status = "FAILED" THEN failure_code ELSE @]
        flushed == [payments EXCEPT ![pid] = stamped]
        cascade == new_status = "COMPLETED"
                   /\ outstanding_amount_in(invoices, flushed, p.invoice_id) <= 0
    IN  [payments |-> [flushed EXCEPT ![pid].history = Append(@,
                          [old_status |-> p.status, new_status |-> new_status,
                           failure_reason |-> failure_reason,
                           failure_code |-> failure_code])],
         invoices |-> IF cascade
                      THEN [invoices EXCEPT ![p.invoice_id] =
                                Invoice_update_status(@, "PAID", 0, NoNotes)]
                      ELSE invoices,
         calls |-> IF cascade
                   THEN << Call(p.invoice_id, invoices[p.invoice_id].status, "PAID") >>
                   ELSE NoCalls]

\* (mutant) a payment that is COMPLETED, FAILED, CANCELLED or REFUNDED keeps
\* its status
update_payment_status_final(user, pid, new_status, failure_reason, failure_code) ==
    /\ pid \in 1..Len(payments)
    /\ IF user \notin Admins
       THEN /\ last' = Served("update_payment_status", "Forbidden", 0, "none", 0, 0, NoCalls)
            /\ UNCHANGED <<invoices, payments>>
       ELSE IF payments[pid].status \in {"COMPLETED", "FAILED", "CANCELLED", "REFUNDED"}
               /\ new_status # payments[pid].status
       THEN /\ last' = Served("update_payment_status", "InvalidTransition", pid,
                              new_status, 0, user, NoCalls)
            /\ UNCHANGED <<invoices, payments>>
       ELSE LET done == Payment_update_status(pid, new_status, failure_reason, failure_code)
            IN  /\ payments' = done.payments
                /\ invoices' = done.invoices
                /\ last' = Served("update_payment_status", "ok", pid, new_status, 0,
                                  user, done.calls)
    /\ UNCHANGED <<refunds, today, session>>
    /\ Bounded

\* -------------------------------------- PUT /payments/<id>/status (admin)
update_payment_status(user, pid, new_status, failure_reason, failure_code) ==
    /\ pid \in 1..Len(payments)
    /\ IF user \notin Admins
       THEN /\ last' = Served("update_payment_status", "Forbidden", 0, "none", 0, 0, NoCalls)
            /\ UNCHANGED <<invoices, payments>>
       ELSE LET done == Payment_update_status(pid, new_status, failure_reason, failure_code)
            IN  /\ payments' = done.payments
                /\ invoices' = done.invoices
                /\ last' = Served("update_payment_status", "ok", pid, new_status, 0,
                                  user, done.calls)
    /\ UNCHANGED <<refunds, today, session>>
    /\ Bounded

\* ------------------------------------------ requests followed step by step
\* Payment.update_status up to the history record: the fields it assigns
Payment_stamp(p, new_status, failure_reason, failure_code) ==
    [p EXCEPT
        !.status = new_status,
        !.processed_at = IF new_status = "PROCESSING" THEN utcnow(p.history) ELSE @,
        !.completed_at = IF new_status = "COMPLETED" THEN utcnow(p.history) ELSE @,
        !.failed_at = IF new_status = "FAILED" THEN utcnow(p.history) ELSE @,
        !.failure_reason = IF new_status = "FAILED" THEN failure_reason ELSE @,
        !.failure_code = IF new_status = "FAILED" THEN failure_code ELSE @]

\* the UPDATE a session flushes for a payment it loaded: the columns it
\* changed, written over the row as it is in the database by then
UpdatePayment(row, loaded, dirty) ==
    [row EXCEPT
        !.status = IF dirty.status # loaded.status THEN dirty.status ELSE @,
        !.processed_at = IF dirty.processed_at # loaded.processed_at
                         THEN dirty.processed_at ELSE @,
        !.completed_at = IF dirty.completed_at # loaded.completed_at
                         THEN dirty.completed_at ELSE @,
        !.failed_at = IF dirty.failed_at # loaded.failed_at THEN dirty.failed_at ELSE @,
        !.failure_reason = IF dirty.failure_reason # loaded.failure_reason
                           THEN dirty.failure_reason ELSE @,
        !.failure_code = IF dirty.failure_code # loaded.failure_code
                         THEN dirty.failure_code ELSE @]

\* the same for an invoice, with the INSERT of the history record that
\* Invoice.update_status added to the session
UpdateInvoice(row, loaded, dirty) ==
    [row EXCEPT
        !.status = IF dirty.status # loaded.status THEN dirty.status ELSE @,
        !.sent_at = IF dirty.sent_at # loaded.sent_at THEN dirty.sent_at ELSE @,
        !.paid_at = IF dirty.paid_at # loaded.paid_at THEN dirty.paid_at ELSE @,
        !.status_history =
            IF Len(dirty.status_history) > Len(loaded.status_history)
            THEN Append(@, dirty.status_history[Len(dirty.status_history)])
            ELSE @]

PaymentRequests == {"update_payment_status", "stripe_webhook"}

\* another request has written payment pid and has not ended: the row is
\* locked, and a request that wants to write it waits
Locked(s, pid) ==
    \E t \in Requests \ {s} :
        /\ session[t].pc = "dirty"
        /\ session[t].op \in PaymentRequests
        /\ session[t].flushed
        /\ session[t].pid = pid

\* the session of a request that has loaded its payment
Loaded(op, actor, pid, new_status, failure_reason, failure_code) ==
    [pc |-> "loaded", op |-> op, actor |-> actor, pid |-> pid,
     new_status |-> new_status, failure_reason |-> failure_reason,
     failure_code |-> failure_code, payment |-> payments[pid]]

\* PUT /payments/<id>/status by an admin, up to Payment.query.get
begin_update_payment_status(s, user, pid, new_status, failure_reason, failure_code) ==
    /\ session[s].pc = "idle"
    /\ user \in Admins
    /\ pid \in 1..Len(payments)
    /\ session' = [session EXCEPT ![s] =
            Loaded("update_payment_status", user, pid, new_status,
                   failure_reason, failure_code)]
    /\ last' = Idle
    /\ UNCHANGED <<invoices, payments, refunds, today>>

\* The provider has told the payment its payment intent.  No code of src/
\* writes provider_payment_intent_id; the payment's "provider correlation
\* ids" are filled in by the provider integration.
ProviderLinks(pid) ==
    /\ pid \in 1..Len(payments)
    /\ payments[pid].provider_payment_intent_id = 0
    /\ payments' = [payments EXCEPT ![pid].provider_payment_intent_id = pid]
    /\ last' = Idle
    /\ UNCHANGED <<invoices, refunds, today, session>>

\* POST /payments/webhook/stripe, up to Payment.query.filter_by(...).first():
\* an event that names no payment is answered with success and changes
\* nothing
begin_stripe_webhook(s, type, payment_intent_id, failure_reason, failure_code) ==
    LET found == {k \in 1..Len(payments) :
                    payments[k].provider_payment_intent_id = payment_intent_id}
    IN  /\ session[s].pc = "idle"
        /\ IF found = {}
           THEN /\ last' = Served("stripe_webhook", "ok", 0, "none", 0, 0, NoCalls)
                /\ UNCHANGED session
           ELSE /\ session' = [session EXCEPT ![s] =
                        IF type = "payment_intent.succeeded"
                        THEN Loaded("stripe_webhook", 0, CHOOSE k \in found : TRUE,
                                    "COMPLETED", NoFailure, NoFailure)
                        ELSE Loaded("stripe_webhook", 0, CHOOSE k \in found : TRUE,
                                    "FAILED", failure_reason, failure_code)]
                /\ last' = Idle
        /\ UNCHANGED <<invoices, payments, refunds, today>>

\* Payment.update_status in the request's session.  Only a completion reads
\* the database: invoice.outstanding_amount first flushes the payment (the
\* UPDATE waits while another request holds the row), then loads the invoice
\* and sums the COMPLETED payments that are committed, with its own.
Payment_update_status_step(s) ==
    LET r == session[s]
        p == r.payment
        dirty == Payment_stamp(p, r.new_status, r.failure_reason, r.failure_code)
        completes == r.new_status = "COMPLETED"
        seen == [payments EXCEPT ![r.pid] = UpdatePayment(@, p, dirty)]
        invoice == invoices[p.invoice_id]
        cascade == completes
                   /\ outstanding_amount_in(invoices, seen, p.invoice_id) <= 0
    IN  /\ r.pc = "loaded"
        /\ r.op \in PaymentRequests
        /\ completes => ~Locked(s, r.pid)
        /\ session' = [session EXCEPT ![s] =
                [pc |-> "dirty", op |-> r.op, actor |-> r.actor, pid |-> r.pid,
                 new_status |-> r.new_status, failure_reason |-> r.failure_reason,
                 failure_code |-> r.failure_code, payment |-> p, dirty |-> dirty,
                 flushed |-> completes, cascade |-> cascade,
                 invoice |-> invoice,
                 invoice_dirty |-> IF cascade
                                   THEN Invoice_update_status(invoice, "PAID", 0, NoNotes)
                                   ELSE invoice]]
        /\ last' = Idle
        /\ UNCHANGED <<invoices, payments, refunds, today>>

\* db.session.commit() of a payment request: what the session holds is
\* flushed (the payment's changed columns, the history record, the cascaded
\* invoice and its history record) and made durable in one transaction
commit_payment(s) ==
    LET r == session[s]
        record == [old_status |-> r.payment.status, new_status |-> r.new_status,
                   failure_reason |-> r.failure_reason,
                   failure_code |-> r.failure_code]
        id == r.payment.invoice_id
    IN  /\ r.pc = "dirty"
        /\ r.op \in PaymentRequests
        /\ ~Locked(s, r.pid)
        /\ payments' = [payments EXCEPT ![r.pid] =
                [UpdatePayment(@, r.payment, r.dirty) EXCEPT
                    !.history = Append(@, record)]]
        /\ invoices' = [invoices EXCEPT ![id] = UpdateInvoice(@, r.invoice, r.invoice_dirty)]
        /\ last' = Served(r.op, "ok", r.pid, r.new_status, 0, r.actor,
                          IF r.invoice_dirty # r.invoice
                          THEN << Call(id, r.invoice.status, "PAID") >>
                          ELSE NoCalls)
        /\ session' = [session EXCEPT ![s] = NoSession]
        /\ UNCHANGED <<refunds, today>>
        /\ Bounded

\* PUT /invoices/<id>/status up to the commit: the invoice is loaded, the
\* transition is looked up in the table and Invoice.update_status runs in
\* the session; nothing is written before the commit
begin_update_invoice_status(s, user, id, new_status) ==
    /\ session[s].pc = "idle"
    /\ id \in 1..Len(invoices)
    /\ IF new_status \notin valid_transitions(invoices[id].status)
       THEN /\ last' = Served("update_invoice_status", "InvalidTransition", id,
                              "none", 0, 0, NoCalls)
            /\ UNCHANGED session
       ELSE /\ session' = [session EXCEPT ![s] =
                    [pc |-> "dirty", op |-> "update_invoice_status", actor |-> user,
                     id |-> id, new_status |-> new_status,
                     invoice |-> invoices[id],
                     invoice_dirty |-> Invoice_update_status(invoices[id], new_status,
                                                             user, NoNotes)]]
            /\ last' = Idle
    /\ UNCHANGED <<invoices, payments, refunds, today>>

\* db.session.commit() of the invoice status request
commit_invoice(s) ==
    LET r == session[s]
    IN  /\ r.pc = "dirty"
        /\ r.op = "update_invoice_status"
        /\ invoices' = [invoices EXCEPT ![r.id] =
                            UpdateInvoice(@, r.invoice, r.invoice_dirty)]
        /\ last' = Served(r.op, "ok", r.id, r.new_status, 0, r.actor,
                          << Call(r.id, r.invoice.status, r.new_status) >>)
        /\ session' = [session EXCEPT ![s] = NoSession]
        /\ UNCHANGED <<payments, refunds, today>>
        /\ Bounded

\* POST /invoices/ up to Invoice.generate_invoice_number: the new invoice
\* gets the number that follows the greatest one committed
begin_create_invoice(s, user, customer, items, tax_rate, discount, issue, due) ==
    /\ session[s].pc = "idle"
    /\ IF customer = 0 \/ items = <<>>
       THEN /\ last' = Served("create_invoice", "ValidationError", 0, "none", 0, 0, NoCalls)
            /\ UNCHANGED session
       ELSE /\ session' = [session EXCEPT ![s] =
                    [pc |-> "numbered", op |-> "create_invoice", items |-> items,
                     invoice |-> NewInvoice(user, customer, items, tax_rate, discount, issue, due,
                                    generate_invoice_number(invoices, year_of(today)))]]
            /\ last' = Idle
    /\ UNCHANGED <<invoices, payments, refunds, today>>

\* another request has inserted an invoice with this number and has not
\* ended: the unique index makes the INSERT wait for it
Inserting(s, number) ==
    \E t \in Requests \ {s} :
        /\ session[t].pc = "flushed"
        /\ session[t].invoice.invoice_number = number

\* (mutant) invoice_number has no unique index: the INSERT is not held
\* against the numbers that are committed
flush_create_invoice_unindexed(s) ==
    LET r == session[s]
    IN  /\ r.pc = "numbered"
        /\ IF ~ItemsValid(r.items)
           THEN /\ last' = Served("create_invoice", "ValidationError", 0, "none", 0, 0, NoCalls)
                /\ session' = [session EXCEPT ![s] = NoSession]
           ELSE /\ last' = Idle
                /\ session' = [session EXCEPT ![s] =
                        [pc |-> "flushed", op |-> "create_invoice",
                         invoice |-> r.invoice]]
        /\ UNCHANGED <<invoices, payments, refunds, today>>

\* db.session.flush(): the INSERT of the invoice, which the unique index on
\* invoice_number refuses if the number is committed by now; then the line
\* items are looked at
flush_create_invoice(s) ==
    LET r == session[s]
    IN  /\ r.pc = "numbered"
        /\ ~Inserting(s, r.invoice.invoice_number)
        /\ IF \E k \in 1..Len(invoices) :
                    invoices[k].invoice_number = r.invoice.invoice_number
           THEN /\ last' = Served("create_invoice", "IntegrityError", 0, "none", 0, 0, NoCalls)
                /\ session' = [session EXCEPT ![s] = NoSession]
           ELSE IF ~ItemsValid(r.items)
           THEN /\ last' = Served("create_invoice", "ValidationError", 0, "none", 0, 0, NoCalls)
                /\ session' = [session EXCEPT ![s] = NoSession]
           ELSE /\ last' = Idle
                /\ session' = [session EXCEPT ![s] =
                        [pc |-> "flushed", op |-> "create_invoice",
                         invoice |-> r.invoice]]
        /\ UNCHANGED <<invoices, payments, refunds, today>>

\* db.session.commit() of the creation
commit_create_invoice(s) ==
    LET r == session[s]
    IN  /\ r.pc = "flushed"
        /\ invoices' = Append(invoices, r.invoice)
        /\ last' = Served("create_invoice", "ok", Len(invoices) + 1, "none", 0,
                          r.invoice.created_by, NoCalls)
        /\ session' = [session EXCEPT ![s] = NoSession]
        /\ UNCHANGED <<payments, refunds, today>>
        /\ Bounded

\* (mutant) what the request had flushed stays in the database when it fails
rollback_flushed(s) ==
    LET r == session[s]
    IN  /\ r.pc # "idle"
        /\ payments' = IF r.pc = "dirty" /\ r.op \in PaymentRequests /\ r.flushed
                       THEN [payments EXCEPT ![r.pid] =
                                UpdatePayment(@, r.payment, r.dirty)]
                       ELSE payments
        /\ last' = Served(r.op, "ServerError", 0, "none", 0, 0, NoCalls)
        /\ session' = [session EXCEPT ![s] = NoSession]
        /\ UNCHANGED <<invoices, refunds, today>>

\* The request fails part-way (an exception, a lost connection): the
\* handler rolls the session back, or the session is removed at the end of
\* the request without a commit; nothing it wrote stays.
rollback(s) ==
    LET r == session[s]
    IN  /\ r.pc # "idle"
        /\ payments' = payments
        /\ last' = Served(r.op, "ServerError", 0, "none", 0, 0, NoCalls)
        /\ session' = [session EXCEPT ![s] = NoSession]
        /\ UNCHANGED <<invoices, refunds, today>>

\* (mutant) a refund of the whole refundable amount is refused
create_refund_strict(pid, amount, user_id) ==
    IF ~is_refundable(pid)
    THEN [result |-> "NotRefundable", refunds |-> refunds]
    ELSE IF amount >= refundable_amount(pid)
    THEN [result |-> "RefundExceedsBalance", refunds |-> refunds]
    ELSE [result |-> "ok",
          refunds |-> Append(refunds,
              [payment_id |-> pid, amount |-> amount,
               requested_by |-> user_id, status |-> "PENDING"])]

\* (mutant) the refund does not name who asked for it
create_refund_anonymous(pid, amount, user_id) ==
    IF ~is_refundable(pid)
    THEN [result |-> "NotRefundable", refunds |-> refunds]
    ELSE IF amount > refundable_amount(pid)
    THEN [result |-> "RefundExceedsBalance", refunds |-> refunds]
    ELSE [result |-> "ok",
          refunds |-> Append(refunds,
              [payment_id |-> pid, amount |-> amount,
               requested_by |-> 0, status |-> "PENDING"])]

\* --------------------------------------------------- Payment.create_refund
\* "ok" with the refunds table after the insert, or the error raised
create_refund(pid, amount, user_id) ==
    IF ~is_refundable(pid)
    THEN [result |-> "NotRefundable", refunds |-> refunds]
    ELSE IF amount > refundable_amount(pid)
    THEN [result |-> "RefundExceedsBalance", refunds |-> refunds]
    ELSE [result |-> "ok",
          refunds |-> Append(refunds,
              [payment_id |-> pid, amount |-> amount,
               requested_by |-> user_id, status |-> "PENDING"])]

\* ------------------------------------- POST /payments/<id>/refund (admin)
create_refund_request(user, pid, amount) ==
    /\ pid \in 1..Len(payments)
    /\ IF user \notin Admins
       THEN /\ last' = Served("create_refund", "Forbidden", 0, "none", 0, 0, NoCalls)
            /\ UNCHANGED refunds
       ELSE IF amount = 0
       THEN /\ last' = Served("create_refund", "ValidationError", pid, "none", 0, 0, NoCalls)
            /\ UNCHANGED refunds
       ELSE LET done == create_refund(pid, amount, user)
            IN  /\ Len(done.refunds) <= MaxRefunds
                /\ refunds' = done.refunds
                /\ last' = Served("create_refund", done.result, pid, "none", amount, user, NoCalls)
    /\ UNCHANGED <<invoices, payments, today, session>>
    /\ Bounded

\* ------------------------- a refund's status is changed by the processor
RefundStatusChange(rid, new_status) ==
    /\ rid \in 1..Len(refunds)
    /\ refunds[rid].status # new_status
    /\ refunds' = [refunds EXCEPT ![rid].status = new_status]
    /\ last' = Served("refund_status", "ok", rid, new_status, 0, 0, NoCalls)
    /\ UNCHANGED <<invoices, payments, today, session>>

\* the clock passes into the next year
NewYear ==
    /\ year_of(today) < MaxYear
    /\ today' = today + 365
    /\ last' = Idle
    /\ UNCHANGED <<invoices, payments, refunds, session>>

\* time passes
Tick ==
    /\ today < MaxDay
    /\ today' = today + 1
    /\ last' = Idle
    /\ UNCHANGED <<invoices, payments, refunds, session>>

FailureDetails(new_status) ==
    IF new_status = "FAILED" THEN { <<"declined", "card_declined">> }
    ELSE { <<NoFailure, NoFailure>> }

\* ---------------------------------------------------------- request bodies
\* edits that replace the line items, and the edit that changes nothing
EditInputs ==
    { [has_customer_id |-> FALSE, customer_id |-> 0,
       has_issue_date |-> FALSE, issue_date |-> 0,
       has_tax_rate |-> FALSE, tax_rate |-> 0,
       has_discount_amount |-> FALSE, discount_amount |-> 0,
       has_line_items |-> h, line_items |-> items] :
         h \in {TRUE}, items \in LineItemInputs }
    \cup
    { [has_customer_id |-> FALSE, customer_id |-> 0,
       has_issue_date |-> FALSE, issue_date |-> 0,
       has_tax_rate |-> FALSE, tax_rate |-> 0,
       has_discount_amount |-> FALSE, discount_amount |-> 0,
       has_line_items |-> FALSE, line_items |-> <<>>] }

DueDates == {1}

\* 0: the body of the creation has no issue_date
IssueDates == {0}

\* amounts, rates and discounts for the arithmetic of the totals: the line
\* items (2, 50.00), (1, 100.00) of the worked example, small items whose
\* tax is not a whole number of minor units, and an item without a price
LineItemInputsWide ==
    { <<>>,
      << [quantity |-> 2, unit_price |-> 5000], [quantity |-> 1, unit_price |-> 10000] >>,
      << [quantity |-> 1, unit_price |-> 1] >>,
      << [quantity |-> 3, unit_price |-> 5] >>,
      << [quantity |-> 1, unit_price |-> 0] >> }

TaxRatesWide == {0, 10, 50}

DiscountAmountsWide == {0, 1, 500}

EditInputsWide ==
    { [has_customer_id |-> FALSE, customer_id |-> 0,
       has_issue_date |-> FALSE, issue_date |-> 0,
       has_tax_rate |-> ht, tax_rate |-> IF ht THEN t ELSE 0,
       has_discount_amount |-> hd, discount_amount |-> IF hd THEN d ELSE 0,
       has_line_items |-> hi, line_items |-> IF hi THEN items ELSE <<>>] :
         ht \in BOOLEAN, t \in TaxRatesWide, hd \in BOOLEAN, d \in DiscountAmountsWide,
         hi \in BOOLEAN, items \in LineItemInputsWide }

\* ------------------------------------------- the life of invoices (Spec)
\* Every operation on an invoice; its payments complete (once or again) or
\* fail, at the word of any user, and are refunded.
Next ==
    \/ \E user \in Staff, customer \in Customers, items \in LineItemInputs,
          tax_rate \in TaxRates, discount \in DiscountAmounts,
          issue \in IssueDates, due \in DueDates :
            /\ Len(invoices) < MaxInvoices
            /\ create_invoice(user, customer, items, tax_rate, discount, issue, due)
    \/ \E user \in Staff, id \in 1..MaxInvoices, data \in EditInputs :
            update_invoice(user, id, data)
    \/ \E user \in Staff, id \in 1..MaxInvoices, new_status \in InvoiceStatus :
            update_invoice_status(user, id, new_status)
    \/ \E user \in Staff, id \in 1..MaxInvoices, success \in BOOLEAN :
            send_invoice_email(user, id, success)
    \/ \E id \in 1..MaxInvoices : check_overdue_status(id)
    \/ \E id \in 1..MaxInvoices, amount \in 0..(MaxAmount + 1) :
            initiate_payment(id, amount)
    \/ \E id \in 1..MaxInvoices, amount \in 0..(MaxAmount + 1) :
            public_initiate_payment(id, amount)
    \/ \E user \in Users, pid \in 1..MaxPayments, new_status \in {"COMPLETED", "FAILED"} :
         \E f \in FailureDetails(new_status) :
            update_payment_status(user, pid, new_status, f[1], f[2])
    \/ \E user \in Admins, pid \in 1..MaxPayments, amount \in {1} :
            create_refund_request(user, pid, amount)
    \/ Tick

Spec == Init /\ [][Next]_vars

\* --------------------------- the payments of an invoice that was sent (SpecPay)
\* Invoices are created and sent; their payments take every status.
NextPay ==
    \/ \E user \in Staff, customer \in Customers, items \in LineItemInputs,
          tax_rate \in TaxRates, discount \in DiscountAmounts,
          issue \in IssueDates, due \in DueDates :
            /\ Len(invoices) < MaxInvoices
            /\ create_invoice(user, customer, items, tax_rate, discount, issue, due)
    \/ \E user \in Staff, id \in 1..MaxInvoices : send_invoice_email(user, id, TRUE)
    \/ \E id \in 1..MaxInvoices, amount \in 1..MaxAmount : initiate_payment(id, amount)
    \/ \E user \in Admins, pid \in 1..MaxPayments, new_status \in PaymentStatus :
         \E f \in FailureDetails(new_status) :
            update_payment_status(user, pid, new_status, f[1], f[2])
    \/ \E pid \in 1..MaxPayments : confirm_payment(pid)

SpecPay == Init /\ [][NextPay]_vars

\* ------------------------------- the refunds of a payment (SpecRefund)
\* Invoices are created and sent; payments complete, fail or are marked
\* REFUNDED; refunds are asked for by every user and processed.
NextRefund ==
    \/ \E user \in Staff, customer \in Customers, items \in LineItemInputs,
          tax_rate \in TaxRates, discount \in DiscountAmounts,
          issue \in IssueDates, due \in DueDates :
            /\ Len(invoices) < MaxInvoices
            /\ create_invoice(user, customer, items, tax_rate, discount, issue, due)
    \/ \E user \in Staff, id \in 1..MaxInvoices : send_invoice_email(user, id, TRUE)
    \/ \E id \in 1..MaxInvoices, amount \in 1..MaxAmount : initiate_payment(id, amount)
    \/ \E user \in Admins, pid \in 1..MaxPayments, new_status \in {"COMPLETED", "FAILED", "REFUNDED"} :
         \E f \in FailureDetails(new_status) :
            update_payment_status(user, pid, new_status, f[1], f[2])
    \/ \E user \in Users, pid \in 1..MaxPayments, amount \in 0..(MaxAmount + 1) :
            create_refund_request(user, pid, amount)
    \/ \E rid \in 1..MaxRefunds, new_status \in RefundStatus :
            RefundStatusChange(rid, new_status)

SpecRefund == Init /\ [][NextRefund]_vars

\* ------------------------------------ the totals of an invoice (SpecTotals)
\* Invoices are created and edited with every combination of line items,
\* tax rate and discount.
NextTotals ==
    \/ \E user \in Staff, customer \in Customers, items \in LineItemInputsWide,
          tax_rate \in TaxRatesWide, discount \in DiscountAmountsWide,
          issue \in IssueDates, due \in DueDates :
            /\ Len(invoices) < MaxInvoices
            /\ create_invoice(user, customer, items, tax_rate, discount, issue, due)
    \/ \E user \in Staff, id \in 1..MaxInvoices, data \in EditInputsWide :
            update_invoice(user, id, data)

SpecTotals == Init /\ [][NextTotals]_vars

\* --------------------------- refunds of any amount (SpecRefundSigned)
\* As SpecRefund, with the amounts a body can hold: negative, zero, positive.
RefundAmounts == {0 - 1, 0, 1}

NextRefundSigned ==
    \/ \E user \in Staff, customer \in Customers, items \in LineItemInputs,
          tax_rate \in TaxRates, discount \in DiscountAmounts,
          issue \in IssueDates, due \in DueDates :
            /\ Len(invoices) < MaxInvoices
            /\ create_invoice(user, customer, items, tax_rate, discount, issue, due)
    \/ \E user \in Staff, id \in 1..MaxInvoices : send_invoice_email(user, id, TRUE)
    \/ \E id \in 1..MaxInvoices, amount \in 1..MaxAmount : initiate_payment(id, amount)
    \/ \E user \in Admins, pid \in 1..MaxPayments :
            update_payment_status(user, pid, "COMPLETED", NoFailure, NoFailure)
    \/ \E user \in Admins, pid \in 1..MaxPayments, amount \in RefundAmounts :
            create_refund_request(user, pid, amount)

SpecRefundSigned == Init /\ [][NextRefundSigned]_vars

\* ------------------------------------ the editing of invoices (SpecEdit)
\* Invoices are created with or without an issue date (a day of this year,
\* a day of next year), sent, and edited: another customer (one that exists,
\* one that does not), another issue date, another set of line items.
\* -1: the issue_date of the body is not a date
IssueDatesWide == {0 - 1, 0, 1, 366}

\* 0: the body has no customer_id; 3: no customer has this id
CustomersWide == {0, 1, 3}

EditInputsEdit ==
    { [has_customer_id |-> c # 0, customer_id |-> c,
       has_issue_date |-> d # 0, issue_date |-> d,
       has_tax_rate |-> FALSE, tax_rate |-> 0,
       has_discount_amount |-> FALSE, discount_amount |-> 0,
       has_line_items |-> hi, line_items |-> IF hi THEN items ELSE <<>>] :
         c \in {0, 2, 3}, d \in {0, 2, 366}, hi \in BOOLEAN, items \in LineItemInputs }

NextEdit ==
    \/ \E user \in Users, customer \in CustomersWide, items \in LineItemInputs,
          tax_rate \in TaxRates, discount \in DiscountAmounts,
          issue \in IssueDatesWide, due \in DueDates :
            /\ Len(invoices) < MaxInvoices
            /\ create_invoice(user, customer, items, tax_rate, discount, issue, due)
    \/ \E user \in Staff, id \in 1..MaxInvoices, data \in EditInputsEdit :
            update_invoice(user, id, data)
    \/ \E user \in Staff, id \in 1..MaxInvoices : send_invoice_email(user, id, TRUE)

SpecEdit == Init /\ [][NextEdit]_vars

\* ------------------------------------ invoices sent by email (SpecEmail)
\* Two invoices are created, are marked overdue, paid or cancelled by a
\* user, and are sent by any user, one by one and in bulk; the mail service delivers
\* or fails.  A bulk request names up to two ids, also twice the same and
\* one that no invoice has.
BulkEntries == [id : 1..(MaxInvoices + 2), success : BOOLEAN]

BulkInputs ==
    { <<>> } \cup { << e >> : e \in BulkEntries }
             \cup { << e, f >> : e \in BulkEntries, f \in BulkEntries }

NextEmail ==
    \/ \E user \in Staff, customer \in Customers, tax_rate \in TaxRates,
          discount \in DiscountAmounts, issue \in IssueDates, due \in DueDates :
            /\ Len(invoices) < MaxInvoices + 1
            /\ create_invoice(user, customer, << [quantity |-> 1, unit_price |-> 1] >>,
                              tax_rate, discount, issue, due)
    \/ \E user \in Staff, id \in 1..(MaxInvoices + 1),
          new_status \in {"OVERDUE", "PAID", "CANCELLED"} :
            /\ id \in 1..Len(invoices)
            /\ new_status \in valid_transitions(invoices[id].status)
            /\ update_invoice_status(user, id, new_status)
    \/ \E user \in Users, id \in 1..(MaxInvoices + 1), success \in BOOLEAN :
            send_invoice_email(user, id, success)
    \/ \E user \in Users, entries \in BulkInputs :
            send_bulk_invoice_emails(user, entries)

SpecEmail == Init /\ [][NextEmail]_vars

\* ------------------------------- the numbering of invoices (SpecNumber)
\* The year starts with no invoice, or late in a busy year: of the invoices
\* INV-2025-0001 to INV-2025-9998 the table then shows the last one only (the
\* others have four digits and sort below it, so no query for the greatest
\* number can tell them from rows that are absent).
InitNumber ==
    /\ invoices \in
          { <<>>,
            << NewInvoice(2, 1, << [quantity |-> 1, unit_price |-> 1] >>, 0, 0, 0, 1,
                          [year |-> 2025, tail |-> Format04d(9998)]) >> }
    /\ payments = <<>>
    /\ refunds = <<>>
    /\ today = 1
    /\ last = Idle
    /\ session = [s \in Requests |-> NoSession]

NextNumber ==
    \/ \E user \in Staff, customer \in Customers, items \in LineItemInputs,
          tax_rate \in TaxRates, discount \in DiscountAmounts,
          issue \in IssueDates, due \in DueDates :
            /\ Len(invoices) < MaxNumbered
            /\ create_invoice(user, customer, items, tax_rate, discount, issue, due)
    \/ NewYear

SpecNumber == InitNumber /\ [][NextNumber]_vars

\* ------------------- requests that run at the same time (SpecRace)
\* An invoice is made, sent and given payments first; then the requests
\* that settle the payments that are still PENDING, and a cancellation of
\* the invoice, run step by step, and each of them may fail part-way.  The
\* provider sends its event in one request at a time.
Quiet == \A s \in Requests : session[s].pc = "idle"

RaceStatus == {"COMPLETED", "FAILED"}

WebhookEvents == {"payment_intent.succeeded", "payment_intent.payment_failed"}

WebhookRequests == {1}
UserRequests == {2}

NextRace ==
    \/ \E user \in Staff, customer \in Customers, items \in LineItemInputs,
          tax_rate \in TaxRates, discount \in DiscountAmounts,
          issue \in IssueDates, due \in DueDates :
            /\ Quiet
            /\ Len(invoices) < MaxInvoices
            /\ create_invoice(user, customer, items, tax_rate, discount, issue, due)
    \/ \E user \in Staff, id \in 1..MaxInvoices :
            Quiet /\ send_invoice_email(user, id, TRUE)
    \/ \E id \in 1..MaxInvoices, amount \in 1..MaxAmount :
            Quiet /\ initiate_payment(id, amount)
    \/ \E pid \in 1..MaxPayments : Quiet /\ ProviderLinks(pid)
    \/ \E s \in Requests, user \in Admins, pid \in 1..Len(payments),
          new_status \in RaceStatus :
         \E f \in FailureDetails(new_status) :
            /\ payments[pid].status = "PENDING"
            /\ begin_update_payment_status(s, user, pid, new_status, f[1], f[2])
    \/ \E s \in WebhookRequests, type \in WebhookEvents,
          payment_intent_id \in 1..MaxPayments :
         \E f \in FailureDetails("FAILED") :
            /\ \A k \in 1..Len(payments) :
                    payments[k].provider_payment_intent_id = payment_intent_id
                        => payments[k].status = "PENDING"
            /\ begin_stripe_webhook(s, type, payment_intent_id, f[1], f[2])
    \/ \E s \in UserRequests, user \in Staff, id \in 1..MaxInvoices :
            begin_update_invoice_status(s, user, id, "CANCELLED")
    \/ \E s \in Requests : Payment_update_status_step(s)
    \/ \E s \in Requests : commit_payment(s)
    \/ \E s \in Requests : commit_invoice(s)
    \/ \E s \in Requests : rollback(s)

SpecRace == Init /\ [][NextRace]_vars

\* --------------- invoices created at the same time (SpecRaceNumber)
NextRaceNumber ==
    \/ \E s \in Requests, user \in Staff, customer \in Customers,
          items \in LineItemInputs, tax_rate \in TaxRates,
          discount \in DiscountAmounts,
          issue \in IssueDates, due \in DueDates :
            /\ Len(invoices) < MaxNumbered
            /\ begin_create_invoice(s, user, customer, items, tax_rate, discount, issue, due)
    \/ \E s \in Requests : flush_create_invoice(s)
    \/ \E s \in Requests : commit_create_invoice(s)
    \/ \E s \in Requests : rollback(s)

SpecRaceNumber == Init /\ [][NextRaceNumber]_vars


\* ======================================================== the claims
\* the transition table as the specification states it
TransitionTable ==
    { <<"DRAFT", "SENT">>, <<"DRAFT", "CANCELLED">>,
      <<"SENT", "PAID">>, <<"SENT", "OVERDUE">>, <<"SENT", "CANCELLED">>,
      <<"OVERDUE", "PAID">>, <<"OVERDUE", "CANCELLED">>,
      <<"CANCELLED", "DRAFT">> }

\* the amounts of the payments of invoice id that are COMPLETED in pays,
\* added up one row at a time
RECURSIVE CompletedUpTo(_, _, _)
CompletedUpTo(pays, id, n) ==
    IF n = 0 THEN 0
    ELSE CompletedUpTo(pays, id, n - 1)
         + (IF pays[n].invoice_id = id /\ pays[n].status = "COMPLETED"
            THEN pays[n].amount ELSE 0)

CompletedPaid(pays, id) == CompletedUpTo(pays, id, Len(pays))

\* the amounts of the refunds of payment pid that are COMPLETED in refs
RECURSIVE RefundedUpTo(_, _, _)
RefundedUpTo(refs, pid, n) ==
    IF n = 0 THEN 0
    ELSE RefundedUpTo(refs, pid, n - 1)
         + (IF refs[n].payment_id = pid /\ refs[n].status = "COMPLETED"
            THEN refs[n].amount ELSE 0)

Refundable(pays, refs, pid) == pays[pid].amount - RefundedUpTo(refs, pid, Len(refs))

\* the step served a call of Payment.create_refund (the route handed the
\* request on to the payment)
RefundCalled ==
    /\ last'.op = "create_refund"
    /\ last'.result \in {"ok", "NotRefundable", "RefundExceedsBalance"}

\* C1: every change of an invoice's status, whatever operation makes it, goes
\* along an arrow of the transition table.
C1_EveryChangeAllowed ==
    [][\A id \in 1..Len(invoices) :
          invoices'[id].status # invoices[id].status
            => <<invoices[id].status, invoices'[id].status>> \in TransitionTable]_vars

\* C2: a call of Invoice.update_status that asks for a different status along
\* a pair the table does not hold fails with InvalidTransition and leaves the
\* invoice (status, sent_at, paid_at, history) as it was.
C2_InvalidCallFails ==
    [][\A k \in 1..Len(last'.calls) :
          LET c == last'.calls[k]
          IN  (c.old_status # c.new_status
               /\ <<c.old_status, c.new_status>> \notin TransitionTable)
                => /\ last'.result = "InvalidTransition"
                   /\ invoices'[c.invoice_id] = invoices[c.invoice_id]]_vars

\* C3: PAID is terminal: an invoice that is PAID is PAID after every step.
C3_PaidIsTerminal ==
    [][\A id \in 1..Len(invoices) :
          invoices[id].status = "PAID" => invoices'[id].status = "PAID"]_vars

\* C3 witness: a status change was asked of a PAID invoice, and refused.
C3_Witness ==
    /\ last.op = "update_invoice_status"
    /\ last.result = "InvalidTransition"
    /\ invoices[last.id].status = "PAID"

\* C4: right after a payment is updated to COMPLETED the invoice is PAID when
\* its COMPLETED payments, this one included, add up to at least total_amount,
\* and has the status it had when they add up to less.
C4_CompletionCascade ==
    [][(last'.op = "update_payment_status" /\ last'.result = "ok"
        /\ last'.status = "COMPLETED")
        => LET id == payments[last'.id].invoice_id
               paid == CompletedPaid(payments', id)
           IN  /\ payments'[last'.id].status = "COMPLETED"
               /\ paid >= invoices[id].total_amount
                    => invoices'[id].status = "PAID"
               /\ paid < invoices[id].total_amount
                    => invoices'[id].status = invoices[id].status]_vars

\* C4 witness: the second of two payments completed, neither covering the
\* total alone, and the invoice is PAID.
C4_Witness ==
    /\ last.op = "update_payment_status" /\ last.result = "ok"
    /\ last.status = "COMPLETED"
    /\ Len(payments) = 2
    /\ \A k \in 1..2 :
          /\ payments[k].status = "COMPLETED"
          /\ payments[k].amount < invoices[payments[k].invoice_id].total_amount
    /\ invoices[payments[last.id].invoice_id].status = "PAID"

\* C5: outstanding_amount is total_amount minus the amounts of exactly the
\* payments that are COMPLETED now.
C5_OutstandingIsTotalMinusCompleted ==
    \A id \in 1..Len(invoices) :
        outstanding_amount(id) = invoices[id].total_amount - CompletedPaid(payments, id)

\* C5 witness: a payment that was COMPLETED and no longer is, next to one that
\* is, on an invoice whose balance counts only the second.
C5_Witness ==
    \E p, q \in 1..Len(payments) :
        /\ payments[p].status \notin {"COMPLETED", "PENDING"}
        /\ \E k \in 1..Len(payments[p].history) :
                payments[p].history[k].new_status = "COMPLETED"
        /\ payments[q].status = "COMPLETED"
        /\ payments[q].invoice_id = payments[p].invoice_id
        /\ outstanding_amount(payments[q].invoice_id)
              = invoices[payments[q].invoice_id].total_amount - payments[q].amount

\* C6: refundable_amount is never negative.
C6_RefundableNeverNegative ==
    \A pid \in 1..Len(payments) : refundable_amount(pid) >= 0

\* C7: create_refund on a payment that is not COMPLETED fails with
\* NotRefundable, creates no refund and changes nothing.
C7_NotRefundable ==
    [][(RefundCalled /\ payments[last'.id].status # "COMPLETED")
        => /\ last'.result = "NotRefundable"
           /\ refunds' = refunds
           /\ payments' = payments
           /\ invoices' = invoices]_vars

\* C7 witness: a refund was asked of a payment that is not COMPLETED.
C7_Witness ==
    /\ last.op = "create_refund"
    /\ last.result = "NotRefundable"
    /\ payments[last.id].status # "COMPLETED"

\* C8: on a COMPLETED payment create_refund succeeds for the refundable
\* amount as it stands at the call and fails with RefundExceedsBalance,
\* creating nothing, for any larger amount.
C8_RefundBoundary ==
    [][(RefundCalled /\ payments[last'.id].status = "COMPLETED")
        => LET left == Refundable(payments, refunds, last'.id)
           IN  /\ last'.amount = left => last'.result = "ok"
               /\ last'.amount > left
                    => /\ last'.result = "RefundExceedsBalance"
                       /\ refunds' = refunds]_vars

\* C8 witness: after a refund of part of the payment has COMPLETED, a refund
\* of exactly the rest was created.
C8_Witness ==
    /\ last.op = "create_refund" /\ last.result = "ok"
    /\ Len(refunds) = 2
    /\ refunds[1].status = "COMPLETED" /\ refunds[1].payment_id = last.id
    /\ refunds[2].payment_id = last.id
    /\ refunds[1].amount > 0
    /\ refunds[1].amount + refunds[2].amount = payments[last.id].amount

\* C9: a successful create_refund adds one PENDING refund of the payment,
\* requested by the actor, and leaves payments and invoices as they were.
C9_RefundCreated ==
    [][(last'.op = "create_refund" /\ last'.result = "ok")
        => /\ refunds' = Append(refunds,
                  [payment_id |-> last'.id, amount |-> last'.amount,
                   requested_by |-> last'.actor, status |-> "PENDING"])
           /\ last'.actor \in Users
           /\ payments' = payments
           /\ invoices' = invoices]_vars

\* C9 witness: a refund of a COMPLETED payment was created.
C9_Witness ==
    /\ last.op = "create_refund" /\ last.result = "ok"
    /\ refunds # <<>>
    /\ payments[last.id].status = "COMPLETED"

\* C10: Invoice.update_status with the status the invoice already has
\* succeeds and changes nothing: no field, no history row.
C10_SameStatusIsNoOp ==
    [][\A k \in 1..Len(last'.calls) :
          LET c == last'.calls[k]
          IN  c.old_status = c.new_status
                => /\ last'.result = "ok"
                   /\ invoices'[c.invoice_id] = invoices[c.invoice_id]]_vars

\* C10 witness: update_status(PAID) was called on an invoice that was PAID
\* already, and its history holds one row for the change to PAID.
C10_Witness ==
    /\ last.calls # <<>>
    /\ last.calls[1].old_status = "PAID" /\ last.calls[1].new_status = "PAID"
    /\ LET h == invoices[last.calls[1].invoice_id].status_history
       IN  Cardinality({k \in 1..Len(h) : h[k].new_status = "PAID"}) = 1

\* C11: the status history of an invoice is a chain that ends at its status:
\* every record starts where the one before it ended, the newest record ends
\* at the current status, and a step that changes the status appends exactly
\* one record, from the status before to the status after.
C11_HistoryIsAChain ==
    /\ [](\A id \in 1..Len(invoices) :
            LET h == invoices[id].status_history
            IN  /\ h # <<>>
                /\ \A k \in 2..Len(h) : h[k].old_status = h[k - 1].new_status
                /\ h[Len(h)].new_status = invoices[id].status)
    /\ [][\A id \in 1..Len(invoices) :
            LET h == invoices[id].status_history
                g == invoices'[id].status_history
            IN  IF invoices'[id].status # invoices[id].status
                THEN /\ Len(g) = Len(h) + 1
                     /\ SubSeq(g, 1, Len(h)) = h
                     /\ g[Len(g)].old_status = invoices[id].status
                     /\ g[Len(g)].new_status = invoices'[id].status
                ELSE g = h]_vars

\* C11 witness: an invoice that went DRAFT, SENT, CANCELLED, DRAFT holds the
\* record of its creation and one record for each of the three changes.
C11_Witness ==
    \E id \in 1..Len(invoices) :
        /\ Len(invoices[id].status_history) = 4
        /\ invoices[id].status_history[4].old_status = "CANCELLED"
        /\ invoices[id].status = "DRAFT"

\* C19: is_overdue holds exactly of a SENT invoice whose due date is before
\* today; check_overdue_status moves exactly such an invoice to OVERDUE, with
\* no actor, and changes nothing of any other invoice.
C19_OverdueCheck ==
    /\ [](\A id \in 1..Len(invoices) :
            is_overdue(id) <=> (invoices[id].status = "SENT"
                                /\ today - invoices[id].due_date > 0))
    /\ [][last'.op = "check_overdue_status"
            => LET id == last'.id
                   h == invoices[id].status_history
               IN  IF invoices[id].status = "SENT" /\ today - invoices[id].due_date > 0
                   THEN /\ invoices'[id].status = "OVERDUE"
                        /\ invoices'[id].status_history = Append(h,
                               [old_status |-> "SENT", new_status |-> "OVERDUE",
                                changed_by |-> 0, notes |-> NoNotes])
                        /\ \A other \in 1..Len(invoices) :
                               other # id => invoices'[other] = invoices[other]
                   ELSE invoices' = invoices]_vars

\* C19 witness: the check ran on an invoice that was SENT and past its due
\* date, and the invoice is OVERDUE by the hand of no user.
C19_Witness ==
    /\ last.op = "check_overdue_status"
    /\ last.calls # <<>>
    /\ invoices[last.id].status = "OVERDUE"
    /\ invoices[last.id].due_date < today
    /\ LET h == invoices[last.id].status_history IN h[Len(h)].changed_by = 0

\* quantity * unit_price of the first n line items, added up one at a time
RECURSIVE LinesUpTo(_, _)
LinesUpTo(items, n) ==
    IF n = 0 THEN 0
    ELSE LinesUpTo(items, n - 1) + items[n].quantity * items[n].unit_price

C20_PaymentsStartValid ==
    [][/\ payments' # payments /\ Len(payments') # Len(payments)
          => /\ Len(payments') = Len(payments) + 1
             /\ SubSeq(payments', 1, Len(payments)) = payments
             /\ LET p == payments'[Len(payments')]
                 IN  /\ p.status = "PENDING"
                     /\ p.invoice_id \in 1..Len(invoices)
                     /\ invoices[p.invoice_id].status \in {"SENT", "OVERDUE"}
                     /\ p.amount > 0
                     /\ p.amount <= invoices[p.invoice_id].total_amount
                                      - CompletedPaid(payments, p.invoice_id)
       /\ (last'.op \in {"initiate_payment", "public_initiate_payment"}
           /\ payments' = payments)
          => last'.result \in {"NotPayable", "ValidationError"}]_vars

\* C20 witness: the public page created a payment for all that was left to
\* pay of an OVERDUE invoice that has a COMPLETED payment.
C20_Witness ==
    /\ last.op = "public_initiate_payment"
    /\ Len(payments) = 2
    /\ payments[1].status = "COMPLETED" /\ payments[2].status = "PENDING"
    /\ payments[1].invoice_id = payments[2].invoice_id
    /\ invoices[payments[2].invoice_id].status = "OVERDUE"
    /\ payments[1].amount + payments[2].amount = invoices[payments[2].invoice_id].total_amount

\* the highest sequence number among the invoices of a year, 0 when it has none
HighestSeq(invs, year) ==
    LET seqs == {ParseInt(invs[k].invoice_number.tail) :
                    k \in {j \in 1..Len(invs) : invs[j].invoice_number.year = year}}
    IN  IF seqs = {} THEN 0 ELSE CHOOSE m \in seqs : \A n \in seqs : n <= m

\* C13: a creation that gets as far as being numbered is given
\* INV-{year}-{seq}, seq one more than the highest sequence number of the
\* year's invoices (1 when the year has none), and so is created.
C13_NextNumber ==
    [][(last'.op = "create_invoice" /\ last'.result \in {"ok", "IntegrityError"})
        => /\ last'.result = "ok"
           /\ invoices'[Len(invoices')].invoice_number =
                 [year |-> year_of(today),
                  tail |-> Format04d(HighestSeq(invoices, year_of(today)) + 1)]]_vars


\* the step changed payment pid or added to its history
PaymentTouched(pid) ==
    \/ payments'[pid].status # payments[pid].status
    \/ payments'[pid].history # payments[pid].history

\* the step added one record to the history of payment pid, and the record
\* ends in the status the payment has after the step
PaymentRecorded(pid) ==
    LET before == payments[pid].history
        after == payments'[pid].history
    IN  /\ Len(after) = Len(before) + 1
        /\ SubSeq(after, 1, Len(before)) = before
        /\ after[Len(after)].new_status = payments'[pid].status

InvoiceTouched(id) ==
    \/ invoices'[id].status # invoices[id].status
    \/ invoices'[id].status_history # invoices[id].status_history

InvoiceRecorded(id) ==
    LET before == invoices[id].status_history
        after == invoices'[id].status_history
    IN  /\ Len(after) = Len(before) + 1
        /\ SubSeq(after, 1, Len(before)) = before
        /\ after[Len(after)].new_status = invoices'[id].status

\* request s ends in this step
Ends(s) == session[s].pc # "idle" /\ session'[s].pc = "idle"

\* C12: a status and its history record are committed together or not at
\* all.  Whatever requests run and wherever they fail, a step that changes
\* the committed status of a payment or of an invoice, or adds to its
\* history, adds exactly one record, and that record ends in the status the
\* entity has after the step; the commit of a completion that changed the
\* invoice to PAID in its session commits the payment as COMPLETED, the
\* invoice as PAID and the invoice's record; and a request that ends
\* without its commit leaves every table as it was.
C12_AllOrNothing ==
    [][ /\ \A pid \in 1..Len(payments) : PaymentTouched(pid) => PaymentRecorded(pid)
        /\ \A id \in 1..Len(invoices) : InvoiceTouched(id) => InvoiceRecorded(id)
        /\ \A s \in Requests :
              ( /\ Ends(s)
                /\ session[s].op \in PaymentRequests
                /\ session[s].pc = "dirty"
                /\ session[s].invoice_dirty # session[s].invoice
                /\ PaymentTouched(session[s].pid) )
              => /\ payments'[session[s].pid].status = "COMPLETED"
                 /\ invoices'[session[s].payment.invoice_id].status = "PAID"
                 /\ InvoiceRecorded(session[s].payment.invoice_id)
        /\ \A s \in Requests :
              (Ends(s) /\ last'.result # "ok")
              => UNCHANGED <<invoices, payments, refunds>>
      ]_vars

\* the provider's event completed a payment and the invoice with it, both
\* with their records; a later request on the other payment failed part-way
\* and left that payment as it was
C12_Witness ==
    /\ Len(invoices) = 1
    /\ Len(payments) = 2
    /\ payments[1].status = "COMPLETED"
    /\ Len(payments[1].history) = 1
    /\ invoices[1].status = "PAID"
    /\ invoices[1].status_history[Len(invoices[1].status_history)].new_status = "PAID"
    /\ last.op = "update_payment_status"
    /\ last.result = "ServerError"
    /\ payments[2].status = "PENDING"
    /\ payments[2].history = <<>>

\* C14: the invoices being created at the same time have numbers that
\* differ from each other.
C14_NumbersNeverShared ==
    \A s, t \in Requests :
        ( /\ s # t
          /\ session[s].pc \in {"numbered", "flushed"}
          /\ session[t].pc \in {"numbered", "flushed"} )
        => session[s].invoice.invoice_number # session[t].invoice.invoice_number

\* C17: two payments of an invoice that was not cancelled were completed
\* from PENDING, no request is running any more, and their amounts cover
\* the invoice; then the invoice is PAID.
C17_BothCompletedPaid ==
    \A p1, p2 \in 1..Len(payments) :
        ( /\ p1 # p2
          /\ Quiet
          /\ payments[p1].invoice_id = payments[p2].invoice_id
          /\ \A p \in {p1, p2} :
                /\ payments[p].status = "COMPLETED"
                /\ payments[p].history =
                      << [old_status |-> "PENDING", new_status |-> "COMPLETED",
                          failure_reason |-> NoFailure, failure_code |-> NoFailure] >>
          /\ payments[p1].amount + payments[p2].amount
                >= invoices[payments[p1].invoice_id].total_amount
          /\ \A k \in 1..Len(invoices[payments[p1].invoice_id].status_history) :
                invoices[payments[p1].invoice_id].status_history[k].new_status
                    # "CANCELLED" )
        => invoices[payments[p1].invoice_id].status = "PAID"

\* C18: the provider's event and an admin's update have both been committed
\* on one payment, the event last.  The payment then has the status its
\* newest history record ends in, and that record starts from the status
\* the record before it ends in.
C18_EventAndAdminInTurn ==
    \A pid \in 1..Len(payments) :
        ( /\ last.op = "stripe_webhook"
          /\ last.result = "ok"
          /\ last.id = pid
          /\ Len(payments[pid].history) = 2 )
        => /\ payments[pid].status = payments[pid].history[2].new_status
           /\ payments[pid].history[2].old_status
                = payments[pid].history[1].new_status


\* C21: every call of Payment.update_status adds exactly one record to the
\* payment's history, holding the status before the call and the status
\* asked for, also when the two are the same; nothing else adds a record.
\* A payment starts without records, so n calls leave n records, and the
\* newest record ends in the status the payment has.
C21_OneRecordPerCall ==
    /\ [](\A pid \in 1..Len(payments) :
            LET h == payments[pid].history
            IN  h # <<>> => h[Len(h)].new_status = payments[pid].status)
    /\ [][\A pid \in 1..Len(payments) :
            IF last'.op = "update_payment_status" /\ last'.result = "ok"
               /\ last'.id = pid
            THEN /\ Len(payments'[pid].history) = Len(payments[pid].history) + 1
                 /\ SubSeq(payments'[pid].history, 1, Len(payments[pid].history))
                        = payments[pid].history
                 /\ LET record == payments'[pid].history[Len(payments'[pid].history)]
                    IN  /\ record.old_status = payments[pid].status
                        /\ record.new_status = last'.status
                        /\ payments'[pid].status = last'.status
            ELSE payments'[pid].history = payments[pid].history]_vars

\* a payment was set to the status it had already, and has a record of it
C21_Witness ==
    /\ last.op = "update_payment_status" /\ last.result = "ok"
    /\ LET h == payments[last.id].history
       IN  /\ Len(h) = 2
           /\ h[2].old_status = "COMPLETED" /\ h[2].new_status = "COMPLETED"

\* C24: every payment's net_amount is its amount less its processing_fee,
\* from its creation on.
C24_NetAmount ==
    \A pid \in 1..Len(payments) :
        payments[pid].net_amount
            = << payments[pid].amount - payments[pid].processing_fee >>


\* C25: an invoice keeps the customer it was created for, whatever is done
\* to it.
C25_CustomerImmutable ==
    [][\A id \in 1..Len(invoices) :
            invoices'[id].customer_id = invoices[id].customer_id]_vars

\* C26: every invoice has at least one line item.
C26_HasLineItems ==
    \A id \in 1..Len(invoices) : invoices[id].line_items # <<>>

\* C30: the number given to a new invoice carries the year of the invoice's
\* issue date, and is the number that follows the greatest one among the
\* invoices numbered in that year.
C30_NumberOfIssueYear ==
    [][(last'.op = "create_invoice" /\ last'.result = "ok")
        => LET new == invoices'[last'.id]
           IN  /\ new.invoice_number.year = year_of(new.issue_date)
               /\ new.invoice_number
                    = generate_invoice_number(invoices, year_of(new.issue_date))]_vars


\* the fields of a payment that Payment.update_status stamps
Stamps(p) ==
    [processed_at |-> p.processed_at, completed_at |-> p.completed_at,
     failed_at |-> p.failed_at, failure_reason |-> p.failure_reason,
     failure_code |-> p.failure_code]

\* C22: a status update writes failed_at, failure_reason and failure_code
\* when the new status is FAILED and only then, processed_at when it is
\* PROCESSING and only then, completed_at when it is COMPLETED and only
\* then; nothing else writes these fields.  So a payment that has a failure
\* reason or code has a record of having been moved to FAILED.
C22_StampsByStatus ==
    /\ [](\A pid \in 1..Len(payments) :
            (payments[pid].failure_reason # NoFailure
                \/ payments[pid].failure_code # NoFailure)
            => \E k \in 1..Len(payments[pid].history) :
                    payments[pid].history[k].new_status = "FAILED")
    /\ [][\A pid \in 1..Len(payments) :
            IF last'.op = "update_payment_status" /\ last'.result = "ok"
               /\ last'.id = pid
            THEN LET before == payments[pid]
                     after == payments'[pid]
                     now == utcnow(before.history)
                     record == after.history[Len(after.history)]
                 IN  /\ after.processed_at = IF last'.status = "PROCESSING"
                                             THEN now ELSE before.processed_at
                     /\ after.completed_at = IF last'.status = "COMPLETED"
                                             THEN now ELSE before.completed_at
                     /\ after.failed_at = IF last'.status = "FAILED"
                                          THEN now ELSE before.failed_at
                     /\ after.failure_reason = IF last'.status = "FAILED"
                                               THEN record.failure_reason
                                               ELSE before.failure_reason
                     /\ after.failure_code = IF last'.status = "FAILED"
                                             THEN record.failure_code
                                             ELSE before.failure_code
            ELSE Stamps(payments'[pid]) = Stamps(payments[pid])]_vars

\* a payment that failed was then set to REFUNDED: it keeps the time, the
\* reason and the code of its failure
C22_Witness ==
    /\ last.op = "update_payment_status" /\ last.result = "ok"
    /\ last.status = "REFUNDED"
    /\ payments[last.id].status = "REFUNDED"
    /\ payments[last.id].failure_reason = "declined"
    /\ payments[last.id].failure_code = "card_declined"
    /\ payments[last.id].failed_at # 0


\* C23: payments have no transition table.  Whatever status a payment has,
\* an admin's request for any of the seven statuses is accepted and the
\* payment then has the status asked for.
C23_AnyStatusFromAny ==
    [][\A pid \in 1..Len(payments) :
            (last'.op = "update_payment_status" /\ last'.id = pid)
            => /\ last'.result = "ok"
               /\ last'.status \in PaymentStatus
               /\ payments'[pid].status = last'.status
               /\ LET record == payments'[pid].history[Len(payments'[pid].history)]
                  IN  /\ record.old_status = payments[pid].status
                      /\ record.new_status = last'.status]_vars

\* one payment was moved out of COMPLETED, out of FAILED and out of
\* CANCELLED, one request each
C23_Witness ==
    \E pid \in 1..Len(payments) :
        LET h == payments[pid].history
        IN  /\ Len(h) = 4
            /\ h[2].old_status = "COMPLETED" /\ h[2].new_status = "FAILED"
            /\ h[3].old_status = "FAILED" /\ h[3].new_status = "CANCELLED"
            /\ h[4].old_status = "CANCELLED" /\ h[4].new_status = "REFUNDED"
            /\ payments[pid].status = "REFUNDED"


\* C27: every refund has an amount above zero.
C27_RefundsArePositive ==
    \A rid \in 1..Len(refunds) : refunds[rid].amount > 0


\* history after holds the records of history before, unchanged and in
\* their places
GrownFrom(before, after) ==
    /\ Len(after) >= Len(before)
    /\ SubSeq(after, 1, Len(before)) = before

\* C28: the histories only grow at the end.  No step removes an invoice or
\* a payment, and every step leaves the records that an invoice's status
\* history and a payment's history hold as they are, in their places.
C28_HistoryAppendOnly ==
    [][ /\ Len(invoices') >= Len(invoices)
        /\ Len(payments') >= Len(payments)
        /\ \A id \in 1..Len(invoices) :
              GrownFrom(invoices[id].status_history, invoices'[id].status_history)
        /\ \A pid \in 1..Len(payments) :
              GrownFrom(payments[pid].history, payments'[pid].history) ]_vars

\* an invoice that was created, sent and paid through a payment that was
\* completed after it had failed: three records and two
C28_Witness ==
    /\ Len(invoices) = 1 /\ Len(payments) = 1
    /\ Len(invoices[1].status_history) = 3
    /\ invoices[1].status = "PAID"
    /\ Len(payments[1].history) = 2
    /\ payments[1].history[1].new_status = "FAILED"
    /\ payments[1].history[2].new_status = "COMPLETED"


\* C29: a change of an invoice's status to SENT sets sent_at, a change to
\* PAID sets paid_at, and nothing else writes either.  So an invoice that
\* is SENT, OVERDUE or PAID has sent_at, and one that is PAID has paid_at.
C29_SentAtPaidAt ==
    /\ [](\A id \in 1..Len(invoices) :
            /\ invoices[id].status \in {"SENT", "OVERDUE", "PAID"}
                    => invoices[id].sent_at # 0
            /\ invoices[id].status = "PAID" => invoices[id].paid_at # 0)
    /\ [][\A id \in 1..Len(invoices) :
            LET before == invoices[id]
                after == invoices'[id]
                moved == after.status # before.status
                now == utcnow(before.status_history)
            IN  /\ after.sent_at = IF moved /\ after.status = "SENT"
                                   THEN now ELSE before.sent_at
                /\ after.paid_at = IF moved /\ after.status = "PAID"
                                   THEN now ELSE before.paid_at
                /\ moved /\ after.status \in {"SENT", "PAID"} => now # 0]_vars

\* an invoice was sent and then paid, each at its time
C29_Witness ==
    /\ Len(invoices) = 1
    /\ invoices[1].status = "PAID"
    /\ invoices[1].sent_at # 0
    /\ invoices[1].paid_at > invoices[1].sent_at
    /\ last.calls # NoCalls
    /\ last.calls[1].new_status = "PAID"

\* ------------------------------------------------------------------- C31
\* C31: a creation that succeeds adds one invoice, in DRAFT, with exactly
\* one history record (DRAFT to DRAFT, by the creating user, "Invoice
\* created"); a creation that is rejected (no customer, no line items, an
\* invalid line item or date) leaves no invoice, line item or history record.
C31_CreatedInDraftOrNotAtAll ==
    [][ last'.op = "create_invoice" =>
          IF last'.result = "ok"
          THEN /\ Len(invoices') = Len(invoices) + 1
               /\ SubSeq(invoices', 1, Len(invoices)) = invoices
               /\ last'.id = Len(invoices')
               /\ LET inv == invoices'[Len(invoices')]
                  IN  /\ inv.status = "DRAFT"
                      /\ inv.line_items # <<>>
                      /\ inv.status_history =
                            << [old_status |-> "DRAFT", new_status |-> "DRAFT",
                                changed_by |-> last'.actor,
                                notes |-> "Invoice created"] >>
               /\ UNCHANGED <<payments, refunds>>
          ELSE UNCHANGED <<invoices, payments, refunds>> ]_vars

\* an invoice was created by the administrator: it is in DRAFT and has the
\* one record of its creation
C31_Witness ==
    /\ last.op = "create_invoice" /\ last.result = "ok" /\ last.actor = 1
    /\ Len(invoices) = 1
    /\ invoices[1].status = "DRAFT"
    /\ Len(invoices[1].status_history) = 1
    /\ invoices[1].status_history[1].changed_by = 1

\* ------------------------------------------------------------------- C32
\* C32: an edit of an invoice that is PAID or CANCELLED is rejected and
\* leaves the invoice, its line items and its totals as they were; an edit
\* of a DRAFT, SENT or OVERDUE invoice never changes the status of the
\* invoice or its status history.
C32_EditKeepsStatus ==
    [][ last'.op = "update_invoice" =>
          LET id == last'.id
          IN  /\ id \in 1..Len(invoices)
              /\ Len(invoices') = Len(invoices)
              /\ IF invoices[id].status \in {"PAID", "CANCELLED"}
                 THEN /\ last'.result = "NotEditable"
                      /\ invoices' = invoices
                 ELSE /\ invoices'[id].status = invoices[id].status
                      /\ invoices'[id].status_history = invoices[id].status_history
                      /\ invoices'[id].sent_at = invoices[id].sent_at
                      /\ invoices'[id].paid_at = invoices[id].paid_at ]_vars

\* the edit of a PAID invoice was refused
C32_Witness ==
    /\ last.op = "update_invoice" /\ last.result = "NotEditable"
    /\ last.id \in 1..Len(invoices)
    /\ invoices[last.id].status = "PAID"
    /\ invoices[last.id].line_items # <<>>

\* ------------------------------------------------------------------- C33
\* whether and how a send request changed invoice k: moved means that the
\* invoice was DRAFT and a send of it succeeded in this request
SentOrUntouched(k, moved, user, notes) ==
    IF moved
    THEN /\ invoices'[k].status = "SENT"
         /\ invoices'[k].sent_at # 0
         /\ invoices'[k].status_history =
                Append(invoices[k].status_history,
                       [old_status |-> "DRAFT", new_status |-> "SENT",
                        changed_by |-> user, notes |-> notes])
    ELSE /\ invoices'[k].status = invoices[k].status
         /\ invoices'[k].sent_at = invoices[k].sent_at
         /\ invoices'[k].status_history = invoices[k].status_history

\* C33: sending an invoice by email, alone or in bulk, moves it to SENT
\* with one history record naming the sending user only when the invoice is
\* DRAFT and the send succeeded; for an invoice in another status, or when
\* the send fails, status, sent_at and history stay as they were.
C33_SentOnlyFromDraftOnSuccess ==
    [][ /\ last'.op = "send_invoice_email" =>
            /\ Len(invoices') = Len(invoices)
            /\ \A k \in 1..Len(invoices) :
                 SentOrUntouched(k,
                    /\ k = last'.id
                    /\ last'.result = "ok"
                    /\ invoices[k].status = "DRAFT",
                    last'.actor, "Invoice sent via email")
        /\ last'.op = "send_bulk_invoice_emails" =>
            /\ Len(invoices') = Len(invoices)
            /\ \A k \in 1..Len(invoices) :
                 SentOrUntouched(k,
                    /\ invoices[k].status = "DRAFT"
                    /\ \E j \in 1..Len(last'.entries) :
                          last'.entries[j].id = k /\ last'.entries[j].success,
                    last'.actor, "Invoice sent via bulk email") ]_vars

\* a bulk request named the same DRAFT invoice twice, both sends succeeded,
\* and the invoice was sent once; the other invoice, PAID, was left alone
C33_Witness ==
    /\ last.op = "send_bulk_invoice_emails"
    /\ Len(last.entries) = 2
    /\ last.entries[1] = [id |-> 1, success |-> TRUE]
    /\ last.entries[2] = [id |-> 1, success |-> TRUE]
    /\ Len(last.calls) = 1
    /\ Len(invoices) = 2
    /\ invoices[1].status = "SENT"
    /\ invoices[2].status = "PAID"

\* ------------------------------------------------------------------- C34
\* C34: in every state an invoice that is PAID has nothing outstanding: its
\* COMPLETED payments add up to at least its total_amount, whatever manual
\* status updates and payment status changes led there.
C34_PaidMeansCovered ==
    \A id \in 1..Len(invoices) :
        invoices[id].status = "PAID" => outstanding_amount(id) <= 0

\* ------------------------------------------------------------------- C35
\* C35: an invoice is never overpaid: in every state its COMPLETED payments
\* add up to at most its total_amount, whatever payments were initiated and
\* completed and however the invoice was edited.
C35_NeverOverpaid ==
    \A id \in 1..Len(invoices) : outstanding_amount(id) >= 0

\* ------------------------------------------------------------------- C36
\* C36: once an invoice is PAID, its line items, subtotal, tax_amount,
\* discount_amount and total_amount never change again, whatever is asked
\* for later.
C36_PaidIsFrozen ==
    [][ \A id \in 1..Len(invoices) :
          invoices[id].status = "PAID" =>
            /\ id \in 1..Len(invoices')
            /\ invoices'[id].line_items = invoices[id].line_items
            /\ invoices'[id].subtotal = invoices[id].subtotal
            /\ invoices'[id].tax_amount = invoices[id].tax_amount
            /\ invoices'[id].discount_amount = invoices[id].discount_amount
            /\ invoices'[id].total_amount = invoices[id].total_amount ]_vars

\* an invoice that its payment made PAID was to be given other line items,
\* and the edit was refused
C36_Witness ==
    /\ last.op = "update_invoice" /\ last.result = "NotEditable"
    /\ last.id \in 1..Len(invoices)
    /\ invoices[last.id].status = "PAID"
    /\ invoices[last.id].total_amount > 0
    /\ outstanding_amount(last.id) = 0
    /\ \E pid \in 1..Len(payments) :
          payments[pid].invoice_id = last.id /\ payments[pid].status = "COMPLETED"

\* ------------------------------------------------------------------- C37
\* C37: only a payment update to COMPLETED can touch the owning invoice: an
\* update to any other status, also one that takes the payment out of
\* COMPLETED, leaves the status, paid_at and status history of the invoice
\* (and of every invoice) as they were.
C37_OnlyCompletionTouchesInvoice ==
    [][ (last'.op = "update_payment_status" /\ last'.status # "COMPLETED") =>
          /\ Len(invoices') = Len(invoices)
          /\ \A id \in 1..Len(invoices) :
                /\ invoices'[id].status = invoices[id].status
                /\ invoices'[id].paid_at = invoices[id].paid_at
                /\ invoices'[id].status_history = invoices[id].status_history
          /\ last'.calls = NoCalls ]_vars

\* a payment that had made its invoice PAID was marked FAILED: the invoice
\* is PAID as before, with the full amount outstanding
C37_Witness ==
    /\ last.op = "update_payment_status" /\ last.result = "ok"
    /\ last.status = "FAILED"
    /\ last.id \in 1..Len(payments)
    /\ LET h == payments[last.id].history
       IN  /\ Len(h) >= 2
           /\ h[Len(h)].old_status = "COMPLETED"
           /\ h[Len(h)].new_status = "FAILED"
    /\ invoices[payments[last.id].invoice_id].status = "PAID"
    /\ outstanding_amount(payments[last.id].invoice_id) > 0

\* ------------------------------------------------------------------- C38
\* the request served last completed payment pid
Completed(served, pid) ==
    /\ served.op = "update_payment_status"
    /\ served.result = "ok"
    /\ served.status = "COMPLETED"
    /\ served.id = pid

C39_CommittedNumbersDistinct ==
    \A j, k \in 1..Len(invoices) :
        j # k => invoices[j].invoice_number # invoices[k].invoice_number

\* two creations had computed the same number; one was committed, and the
\* other was refused by the unique index when it came to its INSERT
C39_Witness ==
    /\ last.op = "create_invoice" /\ last.result = "IntegrityError"
    /\ Len(invoices) = 2
    /\ invoices[1].invoice_number # invoices[2].invoice_number
    /\ Quiet

\* ------------------------------------------------------------------- C40
\* C40: a payment initiation that ends with an error response leaves no
\* payment behind: a request adds a payment only when it reports success.
C40_NoPaymentOnError ==
    [][ (last'.op \in {"initiate_payment", "public_initiate_payment"}
            /\ last'.result # "ok")
          => payments' = payments ]_vars

====
